---- MODULE Spec2Model ----
(***************************************************************************)
(* State-machine model of dareplane_utils: general.ringbuffer.RingBuffer   *)
(* (specification Spec), signal_processing.filtering.FilterBank            *)
(* (specification SpecFB) and stream_watcher.lsl_stream_watcher            *)
(* .StreamWatcher (specification SpecSW).  The three share the variables   *)
(* of the ring buffer: a FilterBank and a StreamWatcher each own one.      *)
(*                                                                         *)
(* A row of the data buffer is modelled by one natural number (the code    *)
(* never inspects a row, it only copies it): 0 is the zero fill written by *)
(* np.zeros, and every row handed to add_samples carries a fresh tag.  A   *)
(* timestamp is a natural number as well; the timestamp that comes with    *)
(* the row tagged d is TimeOf(d), and 0 is the initial fill of buffer_t.   *)
(* numpy arrays are functions over 0..n-1, Python lists are sequences.     *)
(***************************************************************************)
EXTENDS Integers, Sequences, FiniteSets, TLC

\* shape[0] of the RingBuffer under test (rows of buffer and buffer_t)
Capacity == 4
\* an add_samples call gets at most Capacity + Over rows or timestamps
Over == 2
\* rows (tags) handed out over one behaviour
MaxRows == 8
\* calls whose samples and times differ in length, over one behaviour
MaxBad == 2

VARIABLES
    buffer,      \* RingBuffer.buffer   : [0..Capacity-1 -> rows]
    buffer_t,    \* RingBuffer.buffer_t : [0..Capacity-1 -> timestamps]
    curr_i,      \* RingBuffer.curr_i
    last_t,      \* RingBuffer.last_t
    nextId,      \* tag of the next row a caller will hand in
    call,        \* the call made last: its name, arguments and whether it raised
    pre,         \* the RingBuffer's fields right before that call
    start,       \* the RingBuffer's fields at the last Mark (or construction)
    fed_s,       \* rows passed to add_samples since then, in order
    fed_t,       \* timestamps passed to add_samples since then, in order
    fed_ok,      \* every call since then had len(samples) == len(times)
    nbad,        \* calls so far with len(samples) != len(times)
    fb,          \* the FilterBank's own fields (SpecFB)
    sw,          \* the StreamWatcher's own fields (SpecSW)
    obs,         \* what the caller of the object under study has observed
    srv,         \* the DefaultServer and the objects it keeps books on (SpecSrv)
    el,          \* the EventLoop and the clock it reads (SpecEL)
    loggers      \* the handlers of the root logger and of the named loggers (SpecLog)

vars == <<buffer, buffer_t, curr_i, last_t, nextId, call, pre, start, fed_s, fed_t, fed_ok, nbad,
          fb, sw, obs, srv, el, loggers>>

Rows == 0 .. (Capacity - 1)

\* the timestamp delivered with the row tagged d (never 0, the initial fill)
TimeOf(d) == 10 * d

Min(a, b) == IF a < b THEN a ELSE b

Max(a, b) == IF a < b THEN b ELSE a

\* ------------------------------------------------------------------------
\* Python / numpy primitives used by the class

\* the slice object slice(a, b); stop = None is written NoneStop
NoneStop == -1

slice(a, b) == [start |-> a, stop |-> b]

\* number of leading indices a slice skips, and the index it stops before,
\* on a container of length n (Python clamps both to the length)
SliceLo(s, n) == Min(s.start, n)

SliceHi(s, n) == IF s.stop = NoneStop THEN n ELSE Max(SliceLo(s, n), Min(s.stop, n))

\* lst[s] for a list (0-based slice on a 1-based sequence)
GetSlice(lst, s) == SubSeq(lst, SliceLo(s, Len(lst)) + 1, SliceHi(s, Len(lst)))

\* a slip in the truncation: lst[:n], the oldest rows instead of the latest
LastN_oldest(lst, n) == SubSeq(lst, 1, Min(Len(lst), n))

\* lst[-n:]
LastN(lst, n) == SubSeq(lst, Max(Len(lst) - n, 0) + 1, Len(lst))

\* arr[s] = src on a numpy array with Capacity rows: the source must have as
\* many rows as the slice selects, or exactly one row (broadcast); numpy
\* raises ValueError before writing anything otherwise.
SetSlice(arr, s, src) ==
    LET lo == SliceLo(s, Capacity)
        hi == SliceHi(s, Capacity)
        k  == hi - lo
    IN  IF Len(src) = k
        THEN [arr |-> [i \in Rows |-> IF lo <= i /\ i < hi THEN src[i - lo + 1] ELSE arr[i]],
              raised |-> FALSE]
        ELSE IF Len(src) = 1
        THEN [arr |-> [i \in Rows |-> IF lo <= i /\ i < hi THEN src[1] ELSE arr[i]],
              raised |-> FALSE]
        ELSE [arr |-> arr, raised |-> TRUE]

\* ------------------------------------------------------------------------
\* RingBuffer

\* the object's fields as one record
Self == [buffer |-> buffer, buffer_t |-> buffer_t, curr_i |-> curr_i, last_t |-> last_t]

\* RingBuffer.__init__
NewRingBuffer ==
    [buffer |-> [i \in Rows |-> 0], buffer_t |-> [i \in Rows |-> 0], curr_i |-> 0, last_t |-> 0]

\* a numpy array as the sequence of its rows
AsSeq(arr, lo, hi) == [j \in 1 .. (hi - lo) |-> arr[lo + j - 1]]

\* a slip in the unfolding: the two halves stacked in physical order
unfold_buffer_physical(self) ==
    [j \in 1 .. Capacity |-> self.buffer[j - 1]]

\* RingBuffer.unfold_buffer: vstack([buffer[curr_i:], buffer[:curr_i]])
unfold_buffer(self) ==
    AsSeq(self.buffer, self.curr_i, Capacity) \o AsSeq(self.buffer, 0, self.curr_i)

\* RingBuffer.unfold_buffer_t: hstack([buffer_t[curr_i:], buffer_t[:curr_i]])
unfold_buffer_t(self) ==
    AsSeq(self.buffer_t, self.curr_i, Capacity) \o AsSeq(self.buffer_t, 0, self.curr_i)

\* a slip in the wrap case: the head of the input is cut at new_i rows
\* instead of the rows left up to the end of the buffer
get_insert_slices_cut(self, len_samples) ==
    LET old_i == self.curr_i
        new_i == (self.curr_i + len_samples) % Capacity
    IN  IF old_i < new_i
        THEN << <<slice(old_i, new_i)>>, <<slice(0, len_samples)>>, new_i >>
        ELSE IF new_i = 0
        THEN << <<slice(old_i, NoneStop)>>, <<slice(0, len_samples)>>, new_i >>
        ELSE << <<slice(old_i, NoneStop), slice(0, new_i)>>,
                <<slice(0, new_i), slice(new_i, NoneStop)>>,
                new_i >>

\* a slip in the first test (<= for <): a full-capacity insert is taken for
\* a plain forward fill
get_insert_slices_le(self, len_samples) ==
    LET old_i == self.curr_i
        new_i == (self.curr_i + len_samples) % Capacity
    IN  IF old_i <= new_i
        THEN << <<slice(old_i, new_i)>>, <<slice(0, len_samples)>>, new_i >>
        ELSE IF new_i = 0
        THEN << <<slice(old_i, NoneStop)>>, <<slice(0, len_samples)>>, new_i >>
        ELSE LET nfull == Capacity - old_i
             IN  << <<slice(old_i, NoneStop), slice(0, new_i)>>,
                    <<slice(0, nfull), slice(nfull, NoneStop)>>,
                    new_i >>

\* a slip in the plain forward fill: the target slice is left open-ended
get_insert_slices_open(self, len_samples) ==
    LET old_i == self.curr_i
        new_i == (self.curr_i + len_samples) % Capacity
    IN  IF old_i < new_i
        THEN << <<slice(old_i, NoneStop)>>, <<slice(0, len_samples)>>, new_i >>
        ELSE IF new_i = 0
        THEN << <<slice(old_i, NoneStop)>>, <<slice(0, len_samples)>>, new_i >>
        ELSE LET nfull == Capacity - old_i
             IN  << <<slice(old_i, NoneStop), slice(0, new_i)>>,
                    <<slice(0, nfull), slice(nfull, NoneStop)>>,
                    new_i >>

\* RingBuffer.get_insert_slices: <<slice_buffer, slice_samples, new_i>>
get_insert_slices(self, len_samples) ==
    LET old_i == self.curr_i
        new_i == (self.curr_i + len_samples) % Capacity
    IN  IF old_i < new_i
        THEN << <<slice(old_i, new_i)>>, <<slice(0, len_samples)>>, new_i >>
        ELSE IF new_i = 0
        THEN << <<slice(old_i, NoneStop)>>, <<slice(0, len_samples)>>, new_i >>
        ELSE LET nfull == Capacity - old_i
             IN  << <<slice(old_i, NoneStop), slice(0, new_i)>>,
                    <<slice(0, nfull), slice(nfull, NoneStop)>>,
                    new_i >>

\* one assignment statement `self.<field>[sl] = src` in a method body: skipped
\* when an earlier statement of the body raised
AssignData(r, sl, src) ==
    IF r.raised THEN r
    ELSE LET w == SetSlice(r.self.buffer, sl, src)
         IN  [self |-> [r.self EXCEPT !.buffer = w.arr], raised |-> w.raised]

AssignTime(r, sl, src) ==
    IF r.raised THEN r
    ELSE LET w == SetSlice(r.self.buffer_t, sl, src)
         IN  [self |-> [r.self EXCEPT !.buffer_t = w.arr], raised |-> w.raised]

\* a slip in the split write: both halves of buffer_t take the head of times
add_split_buffer_head(self, slice_buffer, slice_samples, samples, times) ==
    LET r0 == [self |-> self, raised |-> FALSE]
        r1 == AssignData(r0, slice_buffer[1], GetSlice(samples, slice_samples[1]))
        r2 == AssignData(r1, slice_buffer[2], GetSlice(samples, slice_samples[2]))
        r3 == AssignTime(r2, slice_buffer[1], GetSlice(times, slice_samples[1]))
        r4 == AssignTime(r3, slice_buffer[2], GetSlice(times, slice(0, slice_buffer[2].stop)))
    IN  r4

\* RingBuffer.add_split_buffer
add_split_buffer(self, slice_buffer, slice_samples, samples, times) ==
    LET r0 == [self |-> self, raised |-> FALSE]
        r1 == AssignData(r0, slice_buffer[1], GetSlice(samples, slice_samples[1]))
        r2 == AssignData(r1, slice_buffer[2], GetSlice(samples, slice_samples[2]))
        r3 == AssignTime(r2, slice_buffer[1], GetSlice(times, slice_samples[1]))
        r4 == AssignTime(r3, slice_buffer[2], GetSlice(times, slice_samples[2]))
    IN  r4

\* RingBuffer.add_continuous_buffer
add_continuous_buffer(self, slice_buffer, samples, times) ==
    LET r0 == [self |-> self, raised |-> FALSE]
        r1 == AssignData(r0, slice_buffer[1], samples)
        r2 == AssignTime(r1, slice_buffer[1], times)
    IN  r2

\* a slip in the guard: empty input is not recognised
IsEmptyInput_never(samples, times) == FALSE

\* the test that sends add_samples to its warning branch
IsEmptyInput(samples, times) == Len(samples) = 0 \/ Len(times) = 0

\* a slip in the index: times[0]
LastTime_first(times) == times[1]

\* times[-1]
LastTime(times) == times[Len(times)]

\* RingBuffer.add_samples: the fields after the call and whether it raised
add_samples(self, samples, times) ==
    IF IsEmptyInput(samples, times)
    THEN [self |-> self, raised |-> FALSE]
    ELSE LET buffer_size == Capacity
             over == Len(samples) > buffer_size
             s    == IF over THEN LastN(samples, buffer_size) ELSE samples
             t    == IF over THEN LastN(times, buffer_size) ELSE times
             ins  == get_insert_slices(self, Len(s))
             adv  == [self EXCEPT !.curr_i = ins[3]]
             r    == IF Len(ins[1]) > 1
                     THEN add_split_buffer(adv, ins[1], ins[2], s, t)
                     ELSE add_continuous_buffer(adv, ins[1], s, t)
         IN  IF r.raised THEN r
             ELSE [self |-> [r.self EXCEPT !.last_t = LastTime(t)], raised |-> FALSE]

\* ------------------------------------------------------------------------
\* The callers' inputs

\* n fresh rows, and the m timestamps that start with the first of them
FreshRows(n) == [k \in 1 .. n |-> nextId + k - 1]

FreshTimes(m) == [k \in 1 .. m |-> TimeOf(nextId + k - 1)]

MaxLen == Capacity + Over

\* the value of a variable whose object does not exist in a specification
Unused == [used |-> FALSE]

Init ==
    /\ fb = Unused
    /\ srv = Unused
    /\ el = Unused
    /\ loggers = Unused
    /\ sw = Unused
    /\ obs = Unused
    /\ buffer = NewRingBuffer.buffer
    /\ buffer_t = NewRingBuffer.buffer_t
    /\ curr_i = NewRingBuffer.curr_i
    /\ last_t = NewRingBuffer.last_t
    /\ nextId = 1
    /\ call = [op |-> "init", samples |-> <<>>, times |-> <<>>, raised |-> FALSE]
    /\ pre = NewRingBuffer
    /\ start = NewRingBuffer
    /\ fed_s = <<>>
    /\ fed_t = <<>>
    /\ fed_ok = TRUE
    /\ nbad = 0

\* what one add_samples(samples, times) call does to the object and the record
DoAddSamples(samples, times) ==
    LET r == add_samples(Self, samples, times)
    IN  /\ buffer' = r.self.buffer
        /\ buffer_t' = r.self.buffer_t
        /\ curr_i' = r.self.curr_i
        /\ last_t' = r.self.last_t
        /\ call' = [op |-> "add_samples", samples |-> samples, times |-> times,
                    raised |-> r.raised]
        /\ pre' = Self
        /\ nextId' = nextId + Max(Len(samples), Len(times))
        /\ fed_s' = fed_s \o samples
        /\ fed_t' = fed_t \o times
        /\ start' = start
        /\ UNCHANGED <<fb, sw, obs, srv, el, loggers>>

\* a caller that keeps the precondition len(samples) == len(times)
AddSamples ==
    \E n \in 0 .. MaxLen :
        /\ nextId + n <= MaxRows + 1
        /\ DoAddSamples(FreshRows(n), FreshTimes(n))
        /\ UNCHANGED <<fed_ok, nbad>>

\* a caller that breaks it
AddSamplesMismatched ==
    \E n \in 0 .. MaxLen, m \in 0 .. MaxLen :
        /\ n # m
        /\ nbad < MaxBad
        /\ nextId + Max(n, m) <= MaxRows + 1
        /\ DoAddSamples(FreshRows(n), FreshTimes(m))
        /\ fed_ok' = FALSE
        /\ nbad' = nbad + 1

\* not an operation of the class: the observer starts a new comparison of a
\* chunked feed with a single call from the current state
Mark ==
    /\ fed_s # <<>> \/ fed_t # <<>>
    /\ start' = Self
    /\ fed_s' = <<>>
    /\ fed_t' = <<>>
    /\ fed_ok' = TRUE
    /\ UNCHANGED <<buffer, buffer_t, curr_i, last_t, nextId, call, pre, nbad, fb, sw, obs, srv, el, loggers>>

Next == AddSamples \/ AddSamplesMismatched \/ Mark

Spec == Init /\ [][Next]_vars

TypeOK ==
    /\ buffer \in [Rows -> 0 .. MaxRows]
    /\ buffer_t \in [Rows -> {0} \cup {TimeOf(d) : d \in 1 .. MaxRows}]
    /\ curr_i \in Rows
    /\ nextId \in 1 .. MaxRows + 1

\* ------------------------------------------------------------------------
\* Properties of RingBuffer

\* the last step was add_samples with as many timestamps as rows
WellFormedCall ==
    /\ call.op = "add_samples"
    /\ Len(call.samples) = Len(call.times)

\* the physical rows an insert of n rows at write index i targets
Targets(i, n) == {(i + k) % Capacity : k \in 0 .. (n - 1)}

OneCall == add_samples(start, fed_s, fed_t)

\* C2: feeding a sequence in consecutive chunks gives the same unfold_buffer()
\* and unfold_buffer_t() as feeding it in one call, from any start state,
\* also when the total or one chunk exceeds the capacity.
C2_ChunkingUnfold ==
    fed_ok =>
        /\ ~OneCall.raised
        /\ unfold_buffer(Self) = unfold_buffer(OneCall.self)
        /\ unfold_buffer_t(Self) = unfold_buffer_t(OneCall.self)

\* a feed of more than capacity rows in several chunks, one of them larger
\* than the capacity, from a start state whose write index is not 0
C2_Witness_Oversized ==
    /\ fed_ok
    /\ WellFormedCall
    /\ start.curr_i # 0
    /\ Len(call.samples) > Capacity
    /\ Len(fed_s) > Len(call.samples)
    /\ buffer # start.buffer

\* a fresh buffer was fed, with well-formed calls, what OneCall feeds at once
FreshFeed == fed_ok /\ start = NewRingBuffer

\* C3 as stated: for any sequence fed to a fresh RingBuffer the physical
\* arrays buffer and buffer_t are the same for one call and for any chunking.
C3_AsStated ==
    FreshFeed =>
        /\ buffer = OneCall.self.buffer
        /\ buffer_t = OneCall.self.buffer_t

\* C3, amended: the physical arrays are the same when the sequence has at
\* most capacity rows, and more generally whenever the chunked feed ends at
\* the write index the single call ends at.
C3_ChunkingPhysical ==
    (FreshFeed /\ (Len(fed_s) <= Capacity \/ curr_i = OneCall.self.curr_i)) =>
        /\ ~OneCall.raised
        /\ buffer = OneCall.self.buffer
        /\ buffer_t = OneCall.self.buffer_t
        /\ curr_i = OneCall.self.curr_i

\* exactly capacity rows fed to a fresh buffer in more than one chunk
C3_Witness_Full ==
    /\ FreshFeed
    /\ WellFormedCall
    /\ Len(fed_s) = Capacity
    /\ Len(call.samples) \in 1 .. (Capacity - 1)

\* C4: one call with n > capacity rows does not raise and leaves exactly the
\* last capacity rows and timestamps, in input order, in the unfolded views,
\* whatever the write index was.
C4_OversizedCall ==
    (WellFormedCall /\ Len(call.samples) > Capacity) =>
        LET n == Len(call.samples)
        IN  /\ ~call.raised
            /\ Len(unfold_buffer(Self)) = Capacity
            /\ Len(unfold_buffer_t(Self)) = Capacity
            /\ \A j \in 1 .. Capacity :
                  /\ unfold_buffer(Self)[j] = call.samples[n - Capacity + j]
                  /\ unfold_buffer_t(Self)[j] = call.times[n - Capacity + j]

\* an oversized call on a buffer whose write index is in the middle
C4_Witness_Oversized ==
    /\ WellFormedCall
    /\ Len(call.samples) > Capacity
    /\ pre.curr_i \notin {0, Capacity - 1}
    /\ pre.buffer[0] # 0

\* C5: add_samples with empty samples and empty times does not raise and
\* leaves buffer, buffer_t, curr_i and last_t unchanged, from every state.
C5_EmptyCall ==
    (call.op = "add_samples" /\ call.samples = <<>> /\ call.times = <<>>) =>
        /\ ~call.raised
        /\ Self = pre

\* an empty call on a buffer that holds rows and has wrapped
C5_Witness_Empty ==
    /\ call.op = "add_samples"
    /\ call.samples = <<>>
    /\ call.times = <<>>
    /\ nextId > Capacity + 1
    /\ curr_i # 0

\* rows received so far (every row carries the next tag)
Received == nextId - 1

\* C6: after calls that received K rows in total, unfold_buffer() has
\* capacity rows: the zero fill first, then the min(K, capacity) most
\* recently received rows, oldest first.
C6_UnfoldContents ==
    nbad = 0 =>
        LET u == unfold_buffer(Self)
            m == Min(Received, Capacity)
        IN  /\ Len(u) = Capacity
            /\ \A j \in 1 .. (Capacity - m) : u[j] = 0
            /\ \A j \in 1 .. m : u[Capacity - m + j] = Received - m + j

\* more than capacity rows received and the write index not at 0
C6_Witness_Wrapped ==
    /\ nbad = 0
    /\ Received > Capacity
    /\ curr_i # 0
    /\ unfold_buffer(Self)[Capacity] = Received

\* C7 as stated: a call with len(samples) != len(times) raises and leaves
\* buffer, buffer_t, curr_i and last_t as they were.
C7_MismatchRejected ==
    (call.op = "add_samples" /\ Len(call.samples) # Len(call.times)) =>
        /\ call.raised
        /\ Self = pre

\* C8: after calls with equally long samples and times, buffer[i] and
\* buffer_t[i] come from the same input sample (or are both the zero fill),
\* and the unfolded views pair up position by position.
C8_RowsPairedWithTimes ==
    nbad = 0 =>
        /\ \A i \in Rows :
              IF buffer[i] = 0 THEN buffer_t[i] = 0
              ELSE buffer_t[i] = TimeOf(buffer[i])
        /\ \A j \in 1 .. Capacity :
              LET d == unfold_buffer(Self)[j]
              IN  unfold_buffer_t(Self)[j] = (IF d = 0 THEN 0 ELSE TimeOf(d))

\* a wrapping (split) insert has happened on a buffer already full
C8_Witness_Split ==
    /\ nbad = 0
    /\ WellFormedCall
    /\ Received > Capacity
    /\ pre.curr_i # 0
    /\ Len(call.samples) \in 2 .. Capacity
    /\ pre.curr_i + Len(call.samples) > Capacity + 1

C10_FrameOutsideTargets ==
    (WellFormedCall /\ Len(call.samples) < Capacity) =>
        \A i \in Rows \ Targets(pre.curr_i, Len(call.samples)) :
            /\ buffer[i] = pre.buffer[i]
            /\ buffer_t[i] = pre.buffer_t[i]

\* 2 rows, then capacity - 1 rows that wrap: row 1 still holds the second
\* row of the first batch
C10_Witness_Kept ==
    /\ WellFormedCall
    /\ nbad = 0
    /\ Received = Capacity + 1
    /\ pre.curr_i = 2
    /\ Len(call.samples) = Capacity - 1
    /\ buffer[1] = 2
    /\ buffer_t[1] = TimeOf(2)
    /\ buffer[0] = Received

\* ========================================================================
\* FilterBank (signal_processing/filtering.py)
\*
\* A row of input data is a sequence of channel values; a row of the
\* FilterBank's ring buffer is a matrix [channel][band] of filtered values.
\* Values are integers: the band-pass design (scipy.signal.butter) is
\* replaced by small integer second-order sections, one cascade per band,
\* which keeps the recursion of sosfilt exact.  A moving average is kept as
\* the rational [num, den].

\* the bands mapping, in declaration order (as in tests/test_filterbank.py)
BandNames == <<"alpha", "gamma">>

NBands == Len(BandNames)

\* FilterBank.ch_names
ChNames == <<"ch_0", "ch_1">>

NCh == Len(ChNames)

\* the rows a caller hands to filter()
RowVals == {<<1, -2>>, <<-3, 1>>}

\* largest n_lookback a FilterBank is built with
MaxLookback == 3
\* rows handed to filter() over one behaviour
MaxFBRows == 5
\* rows handed to filter() over one behaviour in which some call's data and
\* times differ in length
MaxBadRows == 2

\* FilterBank.output_posprocessing_map keys
Outputs == {"abs_ma", "signal", "square"}

Section(b0, b1, b2, a1, a2) == [b0 |-> b0, b1 |-> b1, b2 |-> b2, a1 |-> a1, a2 |-> a2]

\* self.sos[k]: the cascade of second-order sections of band i
Sos(i) ==
    IF i = 1 THEN << Section(1, 1, 0, 0, 0), Section(1, 0, -1, 1, 0) >>
    ELSE << Section(2, 0, 1, 0, 0), Section(1, -1, 0, 0, 1) >>

\* sosfilt_zi(sos): the initial state of each section of band i
SosfiltZi(i) ==
    IF i = 1 THEN << <<1, 0>>, <<0, 0>> >>
    ELSE << <<0, 1>>, <<1, 0>> >>

\* self.zis at construction: sosfilt_zi expanded over the channels,
\* zis[band][section][channel] = <<z0, z1>>
InitialZis ==
    [i \in 1 .. NBands |-> [sct \in 1 .. Len(Sos(i)) |-> [c \in 1 .. NCh |-> SosfiltZi(i)[sct]]]]

\* scipy.signal.sosfilt, one sample through one section (direct form II
\* transposed): the output and the section's next state
SectionStep(sec, z, x) ==
    LET y == sec.b0 * x + z[1]
    IN  [y |-> y, z |-> << sec.b1 * x - sec.a1 * y + z[2], sec.b2 * x - sec.a2 * y >>]

\* one sample through the sections sct .. Len(sos) of a cascade
RECURSIVE CascadeStep(_, _, _, _)
CascadeStep(sos, zs, x, sct) ==
    IF sct > Len(sos) THEN [y |-> x, zs |-> zs]
    ELSE LET r == SectionStep(sos[sct], zs[sct], x)
         IN  CascadeStep(sos, [zs EXCEPT ![sct] = r.z], r.y, sct + 1)

\* the samples k .. Len(xs) of one channel through a cascade, in order
RECURSIVE FilterChannel(_, _, _, _, _)
FilterChannel(sos, zs, xs, k, ys) ==
    IF k > Len(xs) THEN [y |-> ys, zs |-> zs]
    ELSE LET r == CascadeStep(sos, zs, xs[k], 1)
         IN  FilterChannel(sos, r.zs, xs, k + 1, Append(ys, r.y))

\* sosfilt(sos, x, zi=zi) for x of shape (channels, n) and zi of shape
\* (sections, channels, 2): filtered x and the final state zf
sosfilt(sos, x, zi) ==
    LET ch == [c \in 1 .. NCh |->
                  FilterChannel(sos, [sct \in 1 .. Len(sos) |-> zi[sct][c]], x[c], 1, <<>>)]
    IN  [y  |-> [c \in 1 .. NCh |-> ch[c].y],
         zf |-> [sct \in 1 .. Len(sos) |-> [c \in 1 .. NCh |-> ch[c].zs[sct]]]]

\* data.T for data of shape (n, channels)
Transpose(data) == [c \in 1 .. NCh |-> [r \in 1 .. Len(data) |-> data[r][c]]]

\* a slip in the stacking: the rows come out as [band][channel]
StackRows_swapped(fdata, n) ==
    [r \in 1 .. n |-> [i \in 1 .. NBands |-> [c \in 1 .. NCh |-> fdata[i][c][r]]]]

\* fdata.T for fdata of shape (bands, channels, n): rows [channel][band]
StackRows(fdata, n) ==
    [r \in 1 .. n |-> [c \in 1 .. NCh |-> [i \in 1 .. NBands |-> fdata[i][c][r]]]]

\* a ring-buffer row of np.zeros((capacity, channels, bands))
ZeroRow == [c \in 1 .. NCh |-> [i \in 1 .. NBands |-> 0]]

\* RingBuffer((int(sfreq * filter_buffer_s), len(ch_names), len(bands)))
NewFBRingBuffer ==
    [buffer |-> [i \in Rows |-> ZeroRow], buffer_t |-> [i \in Rows |-> 0],
     curr_i |-> 0, last_t |-> 0]

\* FilterBank.__init__
NewFilterBank(output, n_lookback) ==
    [ring_buffer |-> NewFBRingBuffer, zis |-> InitialZis, n_new |-> 0,
     output |-> output, n_lookback |-> n_lookback]

\* the FilterBank's fields as one record
FBSelf ==
    [ring_buffer |-> Self, zis |-> fb.zis, n_new |-> fb.n_new,
     output |-> fb.output, n_lookback |-> fb.n_lookback]

\* filter, its last statement: n_new grows by the rows of data unless
\* add_samples raised; r is what add_samples returned
filter_end(self, zis2, r, n) ==
    IF r.raised
    THEN [self |-> [self EXCEPT !.zis = zis2, !.ring_buffer = r.self], raised |-> TRUE]
    ELSE [self |-> [self EXCEPT !.zis = zis2, !.ring_buffer = r.self,
                                !.n_new = self.n_new + n],
          raised |-> FALSE]

\* filter, the loop over the bands: res[i] is what sosfilt returned for band
\* i; the filtered rows as handed to the ring buffer (fdata.T) and the new
\* filter states
filter_bands(res, n) ==
    [fdata |-> StackRows([i \in 1 .. NBands |-> res[i].y], n),
     zis   |-> [i \in 1 .. NBands |-> res[i].zf]]

\* filter, from self.ring_buffer.add_samples on; the filter states are
\* already stored when add_samples runs
filter_add(self, bands, times, n) ==
    filter_end(self, bands.zis, add_samples(self.ring_buffer, bands.fdata, times), n)

\* a slip in the loop: the filter states are not stored back
filter_nostate(self, data, times) ==
    filter_add(self,
               [filter_bands([i \in 1 .. NBands |->
                                 sosfilt(Sos(i), Transpose(data), self.zis[i])], Len(data))
                   EXCEPT !.zis = self.zis],
               times, Len(data))

\* FilterBank.filter: the fields after the call and whether it raised
filter(self, data, times) ==
    filter_add(self,
               filter_bands([i \in 1 .. NBands |->
                                sosfilt(Sos(i), Transpose(data), self.zis[i])], Len(data)),
               times, Len(data))

\* the position a Python index i (negative: from the end) denotes in a
\* slice of a container of length n; -0 is 0
PyIndex(i, n) == IF i < 0 THEN Max(n + i, 0) ELSE Min(i, n)

\* lst[a:b] with a, b Python indices
PySlice(lst, a, b) == SubSeq(lst, PyIndex(a, Len(lst)) + 1, PyIndex(b, Len(lst)))

\* lst[-k:, ...]
PyTail(lst, k) == SubSeq(lst, PyIndex(0 - k, Len(lst)) + 1, Len(lst))

Abs(x) == IF x < 0 THEN 0 - x ELSE x

\* sum of |data[j][c][i]| for j in lo .. hi, rows outside the data counting 0
\* (mode="constant", cval=0.0)
RECURSIVE PaddedAbsSum(_, _, _, _, _)
PaddedAbsSum(data, lo, hi, c, i) ==
    IF lo > hi THEN 0
    ELSE (IF lo >= 1 /\ lo <= Len(data) THEN Abs(data[lo][c][i]) ELSE 0)
         + PaddedAbsSum(data, lo + 1, hi, c, i)

\* abs_moving_average: scipy.ndimage.convolve of |data| with a uniform
\* kernel of n_lookback rows (the kernel covers rows j - (w-1)//2 .. j + w//2
\* around row j), then ma[pre:-post]
abs_moving_average(data, n_lookback) ==
    LET ma   == [j \in 1 .. Len(data) |->
                    [c \in 1 .. NCh |-> [i \in 1 .. NBands |->
                        [num |-> PaddedAbsSum(data, j - ((n_lookback - 1) \div 2),
                                              j + (n_lookback \div 2), c, i),
                         den |-> n_lookback]]]]
        pre_ == (n_lookback - 1) \div 2
        post == n_lookback \div 2
    IN  PySlice(ma, pre_, 0 - post)

\* noop
noop(data) == data

\* lambda x: x**2
square(data) ==
    [j \in 1 .. Len(data) |-> [c \in 1 .. NCh |-> [i \in 1 .. NBands |->
        data[j][c][i] * data[j][c][i]]]]

\* self.output_transform
output_transform(self, data) ==
    IF self.output = "abs_ma" THEN abs_moving_average(data, self.n_lookback)
    ELSE IF self.output = "signal" THEN noop(data)
    ELSE square(data)

\* a variant that consumes: n_new is cleared once the rows are handed out
get_data_reset(self) ==
    LET data == PyTail(unfold_buffer(self.ring_buffer), self.n_new + self.n_lookback)
    IN  [self |-> [self EXCEPT !.n_new = 0],
         out |-> PyTail(output_transform(self, data), self.n_new)]

\* a slip in the history: only n_lookback rows are read from the buffer
get_data_short(self) ==
    LET data == PyTail(unfold_buffer(self.ring_buffer), self.n_lookback)
    IN  [self |-> self, out |-> PyTail(output_transform(self, data), self.n_new)]

\* FilterBank.get_data: the fields after the call and the rows returned
get_data(self) ==
    LET data == PyTail(unfold_buffer(self.ring_buffer), self.n_new + self.n_lookback)
    IN  [self |-> self, out |-> PyTail(output_transform(self, data), self.n_new)]

\* ------------------------------------------------------------------------
\* The FilterBank's callers

\* the timestamps of the m rows that follow the rows fed so far
FBTimes(m) == [k \in 1 .. m |-> TimeOf(Len(fed_s) + k)]

InitFB ==
    /\ \E output \in Outputs, n_lookback \in 1 .. MaxLookback :
          /\ fb = [zis |-> InitialZis, n_new |-> 0, output |-> output,
                   n_lookback |-> n_lookback]
          /\ pre = NewFilterBank(output, n_lookback)
          /\ start = NewFilterBank(output, n_lookback)
    /\ buffer = NewFBRingBuffer.buffer
    /\ buffer_t = NewFBRingBuffer.buffer_t
    /\ curr_i = NewFBRingBuffer.curr_i
    /\ last_t = NewFBRingBuffer.last_t
    /\ nextId = 1
    /\ call = [op |-> "init", data |-> <<>>, times |-> <<>>, raised |-> FALSE]
    /\ fed_s = <<>>
    /\ fed_t = <<>>
    /\ fed_ok = TRUE
    /\ nbad = 0
    /\ sw = Unused
    /\ srv = Unused
    /\ el = Unused
    /\ loggers = Unused
    /\ obs = [out |-> <<>>, prev_out |-> <<>>, repeat |-> FALSE, rows |-> 0, calls |-> 0]

\* obs.out: the rows the last get_data() returned, obs.prev_out: the rows
\* the get_data() before it returned (both <<>> once filter() is called
\* again); obs.repeat: the last two calls were both get_data(); obs.rows:
\* the rows of all filter() calls that returned; obs.calls: the filter()
\* calls made

\* what one filter(data, times) call that returned r does to the object and
\* the record
FilterReturns(r, data, times) ==
    /\ buffer' = r.self.ring_buffer.buffer
    /\ buffer_t' = r.self.ring_buffer.buffer_t
    /\ curr_i' = r.self.ring_buffer.curr_i
    /\ last_t' = r.self.ring_buffer.last_t
    /\ fb' = [fb EXCEPT !.zis = r.self.zis, !.n_new = r.self.n_new]
    /\ call' = [op |-> "filter", data |-> data, times |-> times, raised |-> r.raised]
    /\ pre' = FBSelf
    /\ fed_s' = fed_s \o data
    /\ fed_t' = fed_t \o times
    /\ obs' = [out |-> <<>>, prev_out |-> <<>>, repeat |-> FALSE,
               rows |-> obs.rows + (IF r.raised THEN 0 ELSE Len(data)),
               calls |-> obs.calls + 1]
    /\ UNCHANGED <<nextId, start, sw, srv, el, loggers>>

DoFilter(data, times) == FilterReturns(filter(FBSelf, data, times), data, times)

\* a caller that hands in as many timestamps as rows
Filter ==
    \E n \in 1 .. MaxFBRows :
        /\ Len(fed_s) + n <= (IF fed_ok THEN MaxFBRows ELSE MaxBadRows)
        /\ \E data \in [1 .. n -> RowVals] :
              /\ DoFilter(data, FBTimes(n))
              /\ UNCHANGED <<fed_ok, nbad>>

\* a caller that does not: any number of timestamps too few, or one too many
FilterMismatched ==
    \E n \in 1 .. MaxBadRows, m \in 0 .. (MaxBadRows + 1) :
        /\ n # m
        /\ m <= n + 1
        /\ Len(fed_s) + n <= MaxBadRows
        /\ \E data \in [1 .. n -> RowVals] :
              /\ DoFilter(data, FBTimes(m))
              /\ fed_ok' = FALSE
              /\ nbad' = nbad + 1

\* what one get_data() call that returned r does to the object and the record
GetDataReturns(r) ==
    /\ buffer' = r.self.ring_buffer.buffer
    /\ buffer_t' = r.self.ring_buffer.buffer_t
    /\ curr_i' = r.self.ring_buffer.curr_i
    /\ last_t' = r.self.ring_buffer.last_t
    /\ fb' = [fb EXCEPT !.zis = r.self.zis, !.n_new = r.self.n_new]
    /\ call' = [op |-> "get_data", data |-> <<>>, times |-> <<>>, raised |-> FALSE]
    /\ pre' = FBSelf
    /\ obs' = [obs EXCEPT !.out = r.out, !.prev_out = obs.out,
                          !.repeat = (call.op = "get_data")]
    /\ UNCHANGED <<nextId, start, fed_s, fed_t, fed_ok, nbad, sw, srv, el, loggers>>

GetData == \E r \in {get_data(FBSelf)} : GetDataReturns(r)

NextFB == Filter \/ FilterMismatched \/ GetData

SpecFB == InitFB /\ [][NextFB]_vars

\* ------------------------------------------------------------------------
\* Properties of the FilterBank

\* the final state `one` of a single filter() call has the filter states and
\* the unfolded ring buffer of the current state
SameAsOneCall(one) ==
    /\ ~one.raised
    /\ one.self.zis = fb.zis
    /\ unfold_buffer(one.self.ring_buffer) = unfold_buffer(Self)

\* C11: a FilterBank that was handed a signal chunk by chunk has the per-band
\* filter states and the unfold_buffer() of a FilterBank of the same
\* configuration that was handed the same rows and timestamps in one
\* filter() call, whatever the chunking, chunks of one row included.
C11_ChunkedEqualsOneCall ==
    (fed_ok /\ Len(fed_s) >= 1) => SameAsOneCall(filter(start, fed_s, fed_t))

\* more rows than the ring buffer holds, handed in one row per call
C11_Witness_RowByRow ==
    /\ fed_ok
    /\ Len(fed_s) > Capacity
    /\ obs.calls = Len(fed_s)
    /\ call.op = "filter"

\* C12 as stated: get_data() returns exactly n_new rows in every state.
C12_AsStated ==
    call.op = "get_data" => Len(obs.out) = fb.n_new

\* sum of |u[k][c][j]| over the rows lo .. hi of u
RECURSIVE AbsSumRows(_, _, _, _, _)
AbsSumRows(u, lo, hi, c, j) ==
    IF hi < lo THEN 0 ELSE AbsSumRows(u, lo, hi - 1, c, j) + Abs(u[hi][c][j])

\* out has n rows, and its row r is, per channel and band, the mean (sum
\* over w) of |u| over the w rows of u ending at the row of u that the
\* r-th of the last n rows is
IsTrailingAbsMean(out, u, n, w) ==
    /\ Len(out) = n
    /\ \A r \in 1 .. n, c \in 1 .. NCh, j \in 1 .. NBands :
          out[r][c][j] = [num |-> AbsSumRows(u, Len(u) - n + r - w + 1, Len(u) - n + r, c, j),
                          den |-> w]

\* C13 as stated: with abs_ma, for every window length w >= 1 and
\* 1 <= n_new, n_new + w <= capacity, each row of get_data() is the mean of
\* the absolute values over the w ring-buffer rows ending at its row.
C13_AsStated ==
    (/\ call.op = "get_data"
     /\ fb.output = "abs_ma"
     /\ fb.n_lookback >= 1
     /\ 1 <= fb.n_new
     /\ fb.n_new + fb.n_lookback <= Capacity)
    => IsTrailingAbsMean(obs.out, unfold_buffer(Self), fb.n_new, fb.n_lookback)

\* C14: n_new is the number of rows of all filter() calls that returned;
\* get_data() changes no field of the FilterBank (n_new, ring buffer,
\* filter states), and a get_data() right after a get_data() returns the
\* same rows.
C14_PendingCount ==
    /\ fb.n_new = obs.rows
    /\ call.op = "get_data" => FBSelf = pre
    /\ (call.op = "get_data" /\ obs.repeat) => obs.out = obs.prev_out

\* get_data() twice in a row, after filter() calls interleaved with
\* get_data()
C14_Witness_Repeated ==
    /\ call.op = "get_data"
    /\ obs.repeat
    /\ obs.calls >= 2
    /\ fb.n_new >= 2
    /\ Len(obs.out) >= 2

\* C15 as stated: filter() with len(data) # len(times) raises and leaves
\* the filter states, the ring buffer and n_new as they were.
C15_AsStated ==
    (call.op = "filter" /\ Len(call.data) # Len(call.times))
    => (call.raised /\ FBSelf = pre)

\* the rows of data that a call keeps: all but the first Len(data) - capacity
KeptFrom(data) == Max(Len(data) - Capacity, 0) + 1

\* C16: after a filter(data, times) call with as many timestamps as rows,
\* the ring-buffer row stored for input row r holds at [c][j] the r-th output
\* of band j's cascade, started from the state it had for channel c before
\* the call, run over channel c of data.
C16_RowLayout ==
    (call.op = "filter" /\ Len(call.data) = Len(call.times))
    => \A r \in KeptFrom(call.data) .. Len(call.data), c \in 1 .. NCh, j \in 1 .. NBands :
          buffer[(pre.ring_buffer.curr_i + r - KeptFrom(call.data)) % Capacity][c][j]
              = FilterChannel(Sos(j),
                              [sct \in 1 .. Len(Sos(j)) |-> pre.zis[j][sct][c]],
                              [k \in 1 .. Len(call.data) |-> call.data[k][c]],
                              1, <<>>).y[r]

\* a call whose rows wrap around the end of the buffer, on filter states
\* that earlier calls have moved
C16_Witness_Wrapped ==
    /\ call.op = "filter"
    /\ Len(call.data) = Len(call.times)
    /\ Len(call.data) >= 2
    /\ Len(call.data) <= Capacity
    /\ pre.ring_buffer.curr_i + Len(call.data) > Capacity
    /\ pre.zis # InitialZis

\* out is the last n rows of u, each squared elementwise when sq
IsTailOf(out, u, n, sq) ==
    /\ Len(out) = n
    /\ \A r \in 1 .. n, c \in 1 .. NCh, j \in 1 .. NBands :
          out[r][c][j] = IF sq THEN u[Len(u) - n + r][c][j] * u[Len(u) - n + r][c][j]
                         ELSE u[Len(u) - n + r][c][j]

\* C17: with output "signal" get_data() returns the last n_new rows of
\* unfold_buffer() unchanged, with "square" their elementwise squares, for
\* 1 <= n_new <= capacity; row r of the output is a function of row r of
\* those rows alone.
C17_Elementwise ==
    (/\ call.op = "get_data"
     /\ fb.output \in {"signal", "square"}
     /\ 1 <= fb.n_new
     /\ fb.n_new <= Capacity)
    => IsTailOf(obs.out, unfold_buffer(Self), fb.n_new, fb.output = "square")

\* "square" on more new rows than the lookback, some of them not zero
C17_Witness_Square ==
    /\ call.op = "get_data"
    /\ fb.output = "square"
    /\ fb.n_new > fb.n_lookback
    /\ fb.n_new <= Capacity
    /\ \E r \in 1 .. Len(obs.out) : obs.out[r][1][1] > 1
\* ------------------------------------------------------------------------
\* StreamWatcher (stream_watcher/lsl_stream_watcher.py) under SpecSW
\*
\* buffer, buffer_t, curr_i, last_t are the fields of self.ring_buffer; sw
\* holds the StreamWatcher's own fields. An array object is named by a
\* number, so that "self.buffer is ring_buffer.buffer" is an equality of
\* names. The rows a pull_chunk() returns are fresh tags, as in Spec.

\* self.chunk_buffer_size, the most rows one pull_chunk() returns
ChunkBufferSize == 5
\* rows pulled over one behaviour
MaxSWRows == 6
\* connect_to_stream() calls over one behaviour
MaxConnects == 2

\* inlet.value_type of the streams connected to
ValueTypes == {"c_float", "c_double", "c_int", "c_char_p"}

\* self.inlet = None
NoInlet == [connected |-> FALSE, value_type |-> "None"]

\* pylsl.StreamInlet(self.streams[0]) for a stream of element type vt
StreamInlet(vt) == [connected |-> TRUE, value_type |-> vt]

\* dtype_map.get(self.inlet.value_type, np.float32)
dtype_map(vt) ==
    IF vt = "c_char_p" THEN "object"
    ELSE IF vt = "c_double" THEN "float64"
    ELSE IF vt = "c_byte" THEN "int8"
    ELSE IF vt = "c_short" THEN "int16"
    ELSE IF vt = "c_int" THEN "int32"
    ELSE IF vt = "c_long" THEN "int64"
    ELSE "float32"

\* np.zeros((self.chunk_buffer_size, n_channels))
ZeroChunk == [k \in 1 .. ChunkBufferSize |-> 0]

\* the value of self.samples: a list of its own, or the view
\* self.chunk_buffer[:len] of the staging area
NoSamples == [view |-> FALSE, len |-> 0, rows |-> <<>>]

\* np.array([])
EmptyArray == <<>>

\* StreamWatcher.__init__; the two empty arrays are the objects 1 and 2.
\* arrays[o] is the contents of the array object o once the ring buffer no
\* longer holds it (nothing writes to it from then on); the contents of the
\* two arrays the ring buffer holds are in its fields
NewStreamWatcher ==
    [inlet |-> NoInlet, has_ring_buffer |-> FALSE, ring_buffer |-> NewRingBuffer,
     rb_buffer_obj |-> 0, rb_buffer_t_obj |-> 0, rb_dtype |-> "float64",
     chunk_buffer |-> ZeroChunk, chunk_dtype |-> "float64",
     samples |-> NoSamples, n_new |-> 0,
     buffer_obj |-> 1, buffer_t_obj |-> 2, last_t |-> 0, curr_i |-> 0,
     update |-> "lambda", heap |-> 3, arrays |-> <<EmptyArray, EmptyArray>>]

\* the contents of the array object o
ArrayContents(self, o) ==
    IF o = self.rb_buffer_obj THEN self.ring_buffer.buffer
    ELSE IF o = self.rb_buffer_t_obj THEN self.ring_buffer.buffer_t
    ELSE self.arrays[o]

\* the array objects of a ring buffer that is replaced keep their contents
Released(self) ==
    IF self.has_ring_buffer
    THEN [self.arrays EXCEPT ![self.rb_buffer_obj] = self.ring_buffer.buffer,
                             ![self.rb_buffer_t_obj] = self.ring_buffer.buffer_t]
    ELSE self.arrays

\* _init_buffer: self.ring_buffer = RingBuffer((n_samples, n_channels)), two
\* new array objects
new_ring_buffer(self) ==
    [self EXCEPT !.has_ring_buffer = TRUE,
                 !.ring_buffer = NewRingBuffer,
                 !.rb_buffer_obj = self.heap,
                 !.rb_buffer_t_obj = self.heap + 1,
                 !.arrays = Released(self) \o <<EmptyArray, EmptyArray>>,
                 !.heap = self.heap + 2]

\* the StreamWatcher's fields as one record: sw holds them all but the ring
\* buffer
SWSelf ==
    [f \in DOMAIN sw \cup {"ring_buffer"} |-> IF f = "ring_buffer" THEN Self ELSE sw[f]]

\* the fields of self that sw holds
OwnFields(self) == [f \in DOMAIN self \ {"ring_buffer"} |-> self[f]]

\* StreamWatcher._adjust_buffer_data_type: a new staging area, and astype
\* puts a new array object in ring_buffer.buffer
_adjust_buffer_data_type(self) ==
    [self EXCEPT !.chunk_buffer = ZeroChunk,
                 !.chunk_dtype = dtype_map(self.inlet.value_type),
                 !.rb_buffer_obj = self.heap,
                 !.rb_dtype = dtype_map(self.inlet.value_type),
                 !.arrays = [self.arrays EXCEPT ![self.rb_buffer_obj] = self.ring_buffer.buffer]
                                \o <<EmptyArray>>,
                 !.heap = self.heap + 1]

\* a slip in the dispatch: every stream gets the numeric path
_define_update_method_numeric(self) ==
    [self EXCEPT !.update = "update_numeric"]

\* StreamWatcher._define_update_method
_define_update_method(self) ==
    IF self.inlet.value_type = "c_char_p"
    THEN [self EXCEPT !.update = "update_char_p"]
    ELSE [self EXCEPT !.update = "update_numeric"]

\* a slip in the link: self.buffer and self.buffer_t are copies
link_properties_copy(self) ==
    [self EXCEPT !.buffer_obj = self.heap,
                 !.buffer_t_obj = self.heap + 1,
                 !.last_t = self.ring_buffer.last_t,
                 !.curr_i = self.ring_buffer.curr_i,
                 !.arrays = self.arrays \o <<self.ring_buffer.buffer, self.ring_buffer.buffer_t>>,
                 !.heap = self.heap + 2]

\* _init_buffer, the link of the convenience properties
link_properties(self) ==
    [self EXCEPT !.buffer_obj = self.rb_buffer_obj,
                 !.buffer_t_obj = self.rb_buffer_t_obj,
                 !.last_t = self.ring_buffer.last_t,
                 !.curr_i = self.ring_buffer.curr_i]

\* a slip in _init_buffer: a ring buffer that exists is kept
_init_buffer_keep(self) ==
    IF ~self.inlet.connected
    THEN [self |-> self, raised |-> TRUE]
    ELSE [self |-> _define_update_method(link_properties(_adjust_buffer_data_type(
                       IF self.has_ring_buffer THEN self ELSE new_ring_buffer(self)))),
          raised |-> FALSE]

\* StreamWatcher._init_buffer
_init_buffer(self) ==
    IF ~self.inlet.connected
    THEN [self |-> self, raised |-> TRUE]
    ELSE [self |-> _define_update_method(link_properties(_adjust_buffer_data_type(
                       new_ring_buffer(self)))),
          raised |-> FALSE]

\* pull_chunk(dest_obj=self.chunk_buffer): the pulled rows are written over
\* the first rows of the staging area
FillChunk(chunk, rows) ==
    [k \in 1 .. ChunkBufferSize |-> IF k <= Len(rows) THEN rows[k] ELSE chunk[k]]

\* what update() returns: the fields, whether it raised, and the
\* add_samples call it made, if any
Updated(self, raised, called, samples, times) ==
    [self |-> self, raised |-> raised,
     added |-> [called |-> called, samples |-> samples, times |-> times]]

\* update_numeric / update_char_p from "if len(times) > 0" on; r is what
\* add_samples returned
update_end(self, r, samples, times, view) ==
    IF r.raised
    THEN Updated([self EXCEPT !.ring_buffer = r.self], TRUE, TRUE, samples, times)
    ELSE Updated([self EXCEPT !.ring_buffer = r.self,
                              !.samples = [view |-> view, len |-> Len(samples),
                                           rows |-> IF view THEN <<>> ELSE samples],
                              !.n_new = self.n_new + Len(times)],
                 FALSE, TRUE, samples, times)

\* a slip in the counter: n_new is set to the size of the last chunk
update_numeric_assign(self, rows, times) ==
    IF Len(times) > 0
    THEN [update_end([self EXCEPT !.chunk_buffer = FillChunk(self.chunk_buffer, rows)],
                     add_samples(self.ring_buffer, rows, times), rows, times, TRUE)
             EXCEPT !.self.n_new = Len(times)]
    ELSE Updated(self, FALSE, FALSE, <<>>, <<>>)

\* StreamWatcher.update_numeric when pull_chunk hands over rows and times
update_numeric(self, rows, times) ==
    IF Len(times) > 0
    THEN update_end([self EXCEPT !.chunk_buffer = FillChunk(self.chunk_buffer, rows)],
                    add_samples(self.ring_buffer, rows, times), rows, times, TRUE)
    ELSE Updated(self, FALSE, FALSE, <<>>, <<>>)

\* StreamWatcher.update_char_p when pull_chunk hands over rows and times
update_char_p(self, rows, times) ==
    IF Len(times) > 0
    THEN update_end(self, add_samples(self.ring_buffer, rows, times), rows, times, FALSE)
    ELSE Updated(self, FALSE, FALSE, <<>>, <<>>)

\* self.update(): the callable bound last; with self.inlet None the bound
\* methods fail on self.inlet.pull_chunk
update(self, rows, times) ==
    IF self.update = "lambda" THEN Updated(self, FALSE, FALSE, <<>>, <<>>)
    ELSE IF ~self.inlet.connected THEN Updated(self, TRUE, FALSE, <<>>, <<>>)
    ELSE IF self.update = "update_char_p" THEN update_char_p(self, rows, times)
    ELSE update_numeric(self, rows, times)

\* update() pulls from the inlet
Pulls(self) == self.update # "lambda" /\ self.inlet.connected

\* connect_to_stream from self._init_buffer() on; i is what _init_buffer
\* returned
connect_end(i, rows, times) ==
    IF i.raised THEN Updated(i.self, TRUE, FALSE, <<>>, <<>>)
    ELSE update(i.self, rows, times)

\* StreamWatcher.connect_to_stream to a stream of element type vt whose
\* first pull_chunk hands over rows and times
connect_to_stream(self, vt, rows, times) ==
    connect_end(_init_buffer([self EXCEPT !.inlet = StreamInlet(vt)]), rows, times)

\* StreamWatcher.disconnect
disconnect(self) == [self EXCEPT !.inlet = NoInlet]
\* ------------------------------------------------------------------------
\* The StreamWatcher's callers and its stream

\* obs.total: the rows handed to add_samples since construction;
\* obs.rows_cur: the rows handed to add_samples of the current ring buffer;
\* obs.connects: the connect_to_stream() calls made; obs.added: the
\* add_samples call of the last operation; obs.vt: the element type of the
\* stream connected to last
InitSW ==
    /\ sw = OwnFields(NewStreamWatcher)
    /\ buffer = NewStreamWatcher.ring_buffer.buffer
    /\ buffer_t = NewStreamWatcher.ring_buffer.buffer_t
    /\ curr_i = NewStreamWatcher.ring_buffer.curr_i
    /\ last_t = NewStreamWatcher.ring_buffer.last_t
    /\ nextId = 1
    /\ call = [op |-> "init", rows |-> <<>>, times |-> <<>>, raised |-> FALSE]
    /\ pre = NewStreamWatcher
    /\ start = NewStreamWatcher
    /\ fed_s = <<>>
    /\ fed_t = <<>>
    /\ fed_ok = TRUE
    /\ nbad = 0
    /\ fb = Unused
    /\ srv = Unused
    /\ el = Unused
    /\ loggers = Unused
    /\ obs = [total |-> 0, rows_cur |-> 0, connects |-> 0,
              added |-> [called |-> FALSE, samples |-> <<>>, times |-> <<>>],
              vt |-> "None"]

\* what an operation op that returned r does to the object and the record;
\* rows and times are what it pulled from the inlet, fresh tells that it
\* made a new ring buffer
SWReturns(op, r, rows, times, fresh) ==
    /\ sw' = OwnFields(r.self)
    /\ buffer' = r.self.ring_buffer.buffer
    /\ buffer_t' = r.self.ring_buffer.buffer_t
    /\ curr_i' = r.self.ring_buffer.curr_i
    /\ last_t' = r.self.ring_buffer.last_t
    /\ nextId' = nextId + Len(rows)
    /\ call' = [op |-> op, rows |-> rows, times |-> times, raised |-> r.raised]
    /\ pre' = SWSelf
    /\ fed_s' = (IF fresh THEN <<>> ELSE fed_s) \o r.added.samples
    /\ fed_t' = (IF fresh THEN <<>> ELSE fed_t) \o r.added.times
    /\ obs' = [total |-> obs.total + Len(r.added.samples),
               rows_cur |-> (IF fresh THEN 0 ELSE obs.rows_cur) + Len(r.added.samples),
               connects |-> obs.connects + (IF op = "connect_to_stream" THEN 1 ELSE 0),
               added |-> r.added,
               vt |-> IF op = "connect_to_stream" THEN r.self.inlet.value_type ELSE obs.vt]
    /\ UNCHANGED <<start, fed_ok, nbad, fb, srv, el, loggers>>

\* connect_to_stream(): the stream has some element type, and the update()
\* at its end finds k rows waiting
ConnectToStream ==
    \E vt \in ValueTypes, k \in 0 .. ChunkBufferSize :
        /\ obs.connects < MaxConnects
        /\ nextId + k - 1 <= MaxSWRows
        /\ SWReturns("connect_to_stream",
                     connect_to_stream(SWSelf, vt, FreshRows(k), FreshTimes(k)),
                     FreshRows(k), FreshTimes(k), TRUE)

\* update() while it pulls: k rows are waiting
UpdatePulling ==
    \E k \in 0 .. ChunkBufferSize :
        /\ Pulls(SWSelf)
        /\ nextId + k - 1 <= MaxSWRows
        /\ SWReturns("update", update(SWSelf, FreshRows(k), FreshTimes(k)),
                     FreshRows(k), FreshTimes(k), FALSE)

\* update() before the first connect_to_stream() or after disconnect()
UpdateIdle ==
    /\ ~Pulls(SWSelf)
    /\ SWReturns("update", update(SWSelf, <<>>, <<>>), <<>>, <<>>, FALSE)

Disconnect ==
    \E d \in {disconnect(SWSelf)} :
        SWReturns("disconnect", Updated(d, FALSE, FALSE, <<>>, <<>>), <<>>, <<>>, FALSE)

NextSW == ConnectToStream \/ UpdatePulling \/ UpdateIdle \/ Disconnect

SpecSW == InitSW /\ [][NextSW]_vars
\* ------------------------------------------------------------------------
\* Properties of the StreamWatcher

\* C18 as stated: in every state after connect_to_stream(), n_new is the
\* number of rows passed to add_samples of the current ring buffer.
C18_AsStated ==
    obs.connects >= 1 => sw.n_new = obs.rows_cur

\* the ring buffer that a new one becomes when rows and times are added
FreshlyFilled(rows, times) ==
    IF Len(times) = 0 THEN NewRingBuffer ELSE add_samples(NewRingBuffer, rows, times).self

\* C18, amended: connect_to_stream() makes the ring buffer and the staging
\* area anew (afterwards they hold the rows of its own update() and nothing
\* else), but n_new is the number of rows passed to add_samples since the
\* StreamWatcher was constructed, which is the number passed to the current
\* ring buffer only until the second connect_to_stream().
C18_FreshBufferStaleCount ==
    /\ sw.n_new = obs.total
    /\ obs.connects = 1 => sw.n_new = obs.rows_cur
    /\ call.op = "connect_to_stream" =>
          /\ Self = FreshlyFilled(call.rows, call.times)
          /\ obs.rows_cur = Len(call.rows)
          /\ sw.chunk_buffer =
                FillChunk(ZeroChunk, IF sw.update = "update_numeric" THEN call.rows ELSE <<>>)
          /\ sw.n_new = pre.n_new + Len(call.rows)

\* a second connect_to_stream() after rows were pulled and the watcher was
\* disconnected, whose own update() pulls rows again
C18_Witness_Reconnect ==
    /\ call.op = "connect_to_stream"
    /\ obs.connects = 2
    /\ ~pre.inlet.connected
    /\ pre.n_new > 0
    /\ Len(call.rows) > 0

\* C19: an update() that pulls no timestamp leaves the ring buffer and n_new
\* as they were and calls add_samples not at all; an update() that pulls
\* k > 0 timestamps calls add_samples with exactly the k rows and timestamps
\* pulled and adds k to n_new; no operation makes n_new smaller.
C19_UpdateCounts ==
    /\ (call.op = "update" /\ Len(call.times) = 0) =>
          /\ ~obs.added.called
          /\ Self = pre.ring_buffer
          /\ sw.n_new = pre.n_new
    /\ (call.op = "update" /\ Len(call.times) > 0) =>
          /\ obs.added = [called |-> TRUE, samples |-> call.rows, times |-> call.times]
          /\ Self = add_samples(pre.ring_buffer, call.rows, call.times).self
          /\ sw.n_new = pre.n_new + Len(call.times)
    /\ sw.n_new >= pre.n_new

\* an update() on the numeric path that pulls several rows after earlier
\* rows
C19_Witness_Pulled ==
    /\ call.op = "update"
    /\ sw.update = "update_numeric"
    /\ Len(call.times) >= 2
    /\ pre.n_new > 0

\* C20: once connect_to_stream() was called, update is update_char_p if the
\* element type of the stream connected to last is the string type and
\* update_numeric if it is any other type, in every later state up to the
\* next connect_to_stream().
C20_UpdateBinding ==
    obs.connects >= 1 =>
        /\ sw.update = "update_char_p" <=> obs.vt = "c_char_p"
        /\ obs.vt # "c_char_p" => sw.update = "update_numeric"

\* a string stream, some updates and a disconnect() later
C20_Witness_StringStream ==
    /\ obs.vt = "c_char_p"
    /\ call.op = "disconnect"
    /\ sw.n_new > 0
    /\ sw.update = "update_char_p"

\* C21: after connect_to_stream() and any updates, the arrays that
\* StreamWatcher.buffer and StreamWatcher.buffer_t name have the contents
\* of ring_buffer.buffer and ring_buffer.buffer_t; while the current ring
\* buffer has received k <= capacity rows, they are at buffer[0 .. k-1] in
\* the order pulled, with their timestamps at buffer_t[0 .. k-1].
C21_LinkedBuffers ==
    obs.connects >= 1 =>
        /\ ArrayContents(SWSelf, sw.buffer_obj) = buffer
        /\ ArrayContents(SWSelf, sw.buffer_t_obj) = buffer_t
        /\ Len(fed_s) <= Capacity =>
              \A k \in 1 .. Len(fed_s) :
                  /\ ArrayContents(SWSelf, sw.buffer_obj)[k - 1] = fed_s[k]
                  /\ ArrayContents(SWSelf, sw.buffer_t_obj)[k - 1] = fed_t[k]

\* rows pulled by several updates after a second connect_to_stream()
C21_Witness_Updated ==
    /\ obs.connects = 2
    /\ call.op = "update"
    /\ Len(call.rows) >= 1
    /\ Len(fed_s) > Len(call.rows)
    /\ Len(fed_s) <= Capacity

\* C36 as the claim states it: in every state after connect_to_stream() and
\* any updates, StreamWatcher.curr_i and StreamWatcher.last_t are curr_i and
\* last_t of the ring buffer
C36_AsStated ==
    obs.connects >= 1 =>
        /\ sw.curr_i = curr_i
        /\ sw.last_t = last_t

\* ------------------------------------------------------------------------
\* DefaultServer (default_server/server.py) and its helpers
\* (default_server/functions.py)
\*
\* A message is the sequence of its tokens: a command word, "|", ";", "\r\n"
\* or a payload; bytes operations (split, replace, in, ==) act on tokens.
\* A Python dict is the sequence of its items in insertion order.

\* registrations (book-keeping entries made) over one behaviour
MaxEntries == 2
\* max_iter of stop_process
MaxIter == 5

\* the pieces of msg between the occurrences of sep (bytes.split, str.split)
RECURSIVE SplitFrom(_, _, _)
SplitFrom(msg, sep, piece) ==
    IF msg = <<>> THEN <<piece>>
    ELSE IF Head(msg) = sep THEN <<piece>> \o SplitFrom(Tail(msg), sep, <<>>)
    ELSE SplitFrom(Tail(msg), sep, Append(piece, Head(msg)))

Split(msg, sep) == SplitFrom(msg, sep, <<>>)

\* msg.replace(tok, b"")
Replace(msg, tok) == SelectSeq(msg, LAMBDA t : t # tok)

\* tok in msg
Contains(msg, tok) == \E i \in 1 .. Len(msg) : msg[i] = tok

\* the command functions a module has put into pcommand_map
pcommand_map == {"STARTTHREAD", "RUNTHREAD", "STARTPROC", "GETVAL"}

\* what the children and the subprocess itself do with the signals they get:
\* children[i] is the number of SIGTERM the i-th child ignores before it
\* exits, sigint tells whether the subprocess exits on SIGINT
ChildProfiles ==
    { [children |-> <<>>, sigint |-> TRUE],
      [children |-> <<0>>, sigint |-> TRUE],
      [children |-> <<MaxIter - 1>>, sigint |-> FALSE],
      [children |-> <<0, MaxIter>>, sigint |-> TRUE] }

\* the environment of one operation: tick tells whether time_ns() has
\* advanced since it was last read, profile is what the subprocesses that
\* get stopped and their children do
Envs == [tick : {0, 1}, profile : ChildProfiles]

\* noop() and a command function returning a number
IntRet == [kind |-> "int"]
\* get_test_thread(): a thread that was never started, and its stop event
NewThread(started) ==
    [kind |-> "thread", started |-> started, alive |-> started, stop_event |-> FALSE,
     stopped |-> FALSE]
\* a subprocess.Popen and the processes below it
NewPopen ==
    [kind |-> "popen", alive |-> TRUE, stopped |-> FALSE]

\* the value a command function returns
CommandReturn(func) ==
    CASE func = "STARTTHREAD" -> NewThread(FALSE)
      [] func = "RUNTHREAD" -> NewThread(TRUE)
      [] func = "STARTPROC" -> NewPopen
      [] OTHER -> IntRet

\* json.loads of the last piece of a message: only "{}" is a JSON document
JsonLoads(piece) ==
    IF piece = <<"{}">> THEN [ok |-> TRUE] ELSE [ok |-> FALSE]

\* parse_msg(msg, pcommand_map): the function to call and its positional
\* arguments
parse_msg(msg) ==
    IF Len(Split(msg, "|")) > 1 /\ ~JsonLoads(Split(msg, "|")[Len(Split(msg, "|"))]).ok
    THEN [func |-> "noop", args |-> <<>>]
    ELSE [func |-> Split(msg, "|")[1][1],
          args |-> SubSeq(Split(msg, "|"), 2, Len(Split(msg, "|")) - 1)]

\* interpret_msg(msg, pcommand_map): the command functions take no positional
\* argument
interpret_msg(msg) ==
    IF parse_msg(msg).args # <<>>
    THEN [ret |-> IntRet, func |-> parse_msg(msg).func, raised |-> "TypeError"]
    ELSE [ret |-> CommandReturn(parse_msg(msg).func), func |-> parse_msg(msg).func,
          raised |-> "none"]

\* d[key] = value
DictSet(d, key, value) ==
    IF \E i \in 1 .. Len(d) : d[i].key = key
    THEN [i \in 1 .. Len(d) |-> IF d[i].key = key THEN [key |-> key, obj |-> value] ELSE d[i]]
    ELSE Append(d, [key |-> key, obj |-> value])

\* a DefaultServer after init_server(stop_event)
NewServer ==
    [threads |-> <<>>, processes |-> <<>>, listen_stop_event |-> FALSE,
     is_listening |-> FALSE, clock |-> 0]

\* the result of a handler: the server afterwards, the exception that left
\* it, what it sent to the client, the command functions it has called, the
\* threads and subprocesses it handed to thread_stopper and proc_stopper;
\* as_parts is the observer's note on a handle_msg call
Returned(self) ==
    [self |-> self, raised |-> "none", sent |-> <<>>, called |-> <<>>, stopped |-> <<>>,
     as_parts |-> TRUE]

\* stop_thread(thread): thread.join() returns once the thread has ended, and
\* a thread ends when its stop event is set; joining a thread that was never
\* started raises a RuntimeError that stop_thread swallows
stop_thread_raising(th) ==
    IF ~th.started
    THEN [obj |-> th, raised |-> "RuntimeError"]
    ELSE [obj |-> [th EXCEPT !.alive = th.alive /\ ~th.stop_event, !.stopped = TRUE],
          raised |-> "none"]

stop_thread(th) ==
    IF ~th.started
    THEN [obj |-> [th EXCEPT !.stopped = TRUE], raised |-> "none"]
    ELSE [obj |-> [th EXCEPT !.alive = th.alive /\ ~th.stop_event, !.stopped = TRUE],
          raised |-> "none"]

\* psutil.Process(process.pid) for a subprocess whose children and whose
\* reaction to SIGINT are those of profile; rounds lists the signals sent
PsutilProcess(p, profile) ==
    [alive |-> p.alive, children |-> profile.children, sigint |-> profile.sigint,
     rounds |-> <<>>]

\* one round of the first loop of stop_process with i <= max_iter - 1:
\* SIGTERM to every child
SigtermRound(p) ==
    [p EXCEPT !.children = [k \in 1 .. Len(SelectSeq(p.children, LAMBDA c : c > 0)) |->
                               SelectSeq(p.children, LAMBDA c : c > 0)[k] - 1],
              !.rounds = Append(@, "SIGTERM")]

\* the round with i = max_iter: kill every child
KillRound(p) == [p EXCEPT !.children = <<>>, !.rounds = Append(@, "KILL")]

\* the first loop of stop_process, from round i on
RECURSIVE stop_children(_, _)
stop_children(p, i) ==
    IF p.children # <<>> /\ i <= MaxIter
    THEN stop_children(IF i <= MaxIter - 1 THEN SigtermRound(p) ELSE KillRound(p), i + 1)
    ELSE p

\* the second loop of stop_process, from round j on: SIGINT to the subprocess
RECURSIVE stop_parent(_, _)
stop_parent(p, j) ==
    IF p.alive /\ j <= MaxIter
    THEN stop_parent([p EXCEPT !.alive = ~p.sigint, !.rounds = Append(@, "SIGINT")], j + 1)
    ELSE p

\* stop_process(process) for the psutil.Process parent_ps: the subprocess
\* and what psutil has seen of it
StopProcessEnd(p, parent_ps) ==
    [kind |-> p.kind, alive |-> FALSE, stopped |-> TRUE, children |-> parent_ps.children,
     rounds |-> parent_ps.rounds]

\* stop_process that goes for the subprocess only
stop_process_parent_only(p, profile) ==
    StopProcessEnd(p, stop_parent(PsutilProcess(p, profile), 0))

stop_process(p, profile) ==
    StopProcessEnd(p, stop_parent(stop_children(PsutilProcess(p, profile), 0), 0))

\* r after the thread of the i-th item had its stop event set and was handed
\* to thread_stopper, which returned s
ThreadStopped(r, i, s) ==
    [r EXCEPT !.self.threads[i].obj = s.obj, !.raised = s.raised,
              !.stopped = Append(@, s.obj)]

\* the loop of close_threads from the i-th item on, then the pops
RECURSIVE close_threads_from(_, _, _)
close_threads_from(r, i, removed_threads) ==
    IF r.raised # "none" THEN r
    ELSE IF i > Len(r.self.threads)
    THEN [r EXCEPT !.self.threads =
                       SelectSeq(@, LAMBDA e : ~\E k \in 1 .. Len(removed_threads) :
                                                    removed_threads[k] = e.key)]
    ELSE close_threads_from(
             ThreadStopped(r, i, stop_thread([r.self.threads[i].obj
                                                  EXCEPT !.stop_event = TRUE])),
             i + 1, Append(removed_threads, r.self.threads[i].key))

\* close_threads()
close_threads(r) == close_threads_from(r, 1, <<>>)

\* the loop of close_processes from the i-th item on, then the pops
RECURSIVE close_processes_from(_, _, _, _)
close_processes_from(r, i, removed_sprocesses, env) ==
    IF r.raised # "none" THEN r
    ELSE IF i > Len(r.self.processes)
    THEN [r EXCEPT !.self.processes =
                       SelectSeq(@, LAMBDA e : ~\E k \in 1 .. Len(removed_sprocesses) :
                                                    removed_sprocesses[k] = e.key)]
    ELSE close_processes_from(
             [r EXCEPT !.self.processes[i].obj = stop_process(@, env.profile),
                       !.stopped = Append(@, stop_process(r.self.processes[i].obj,
                                                          env.profile))],
             i + 1, Append(removed_sprocesses, r.self.processes[i].key), env)

\* close_processes()
close_processes(r, env) == close_processes_from(r, 1, <<>>, env)

\* the book keeping of msg_interpretation for what the command function
\* returned: the dict key is f"{time.time_ns()}_{msg}"
BookKeeping(r, msg, ret, now) ==
    CASE ret.kind = "int" -> r
      [] ret.kind = "thread" ->
            [r EXCEPT !.self.threads = DictSet(@, <<now, msg>>, ret), !.self.clock = now]
      [] ret.kind = "popen" ->
            [r EXCEPT !.self.processes = DictSet(@, <<now, msg>>, ret), !.self.clock = now]
      [] OTHER -> [r EXCEPT !.raised = "UnknownMsgInterpretation"]

\* msg_interpretation(msg) where interpret_msg has returned i
Interpreted(r, msg, i, env) ==
    IF i.raised # "none"
    THEN [r EXCEPT !.raised = i.raised]
    ELSE BookKeeping([r EXCEPT !.called = Append(@, [func |-> i.func,
                                                       closed |-> r.self.listen_stop_event])], msg, i.ret,
                     r.self.clock + env.tick)

msg_interpretation(r, msg, env) == Interpreted(r, msg, interpret_msg(msg), env)

StopCommands == {<<"STOP", "\r\n">>, <<"STOP">>, <<"STOP", "|", "\r\n">>, <<"STOP", "|">>}
CloseCommands == {<<"CLOSE", "\r\n">>, <<"CLOSE">>, <<"CLOSE", "|", "\r\n">>, <<"CLOSE", "|">>}

\* default_msg_interpretation whose STOP branch leaves the subprocesses alone
default_msg_interpretation_threads_only(r, msg, env) ==
    CASE msg \in StopCommands -> [res |-> close_threads(r), ret |-> TRUE]
      [] msg \in CloseCommands ->
            [res |-> [r EXCEPT !.self.listen_stop_event = TRUE], ret |-> TRUE]
      [] Contains(msg, "GET_PCOMMS") ->
            [res |-> [r EXCEPT !.sent = Append(@, "PCOMMS")], ret |-> TRUE]
      [] msg = <<"UP">> ->
            [res |-> [r EXCEPT !.sent = Append(@, "1")], ret |-> TRUE]
      [] OTHER -> [res |-> r, ret |-> FALSE]

\* default_msg_interpretation(msg): res is the outcome, ret the returned bool
default_msg_interpretation(r, msg, env) ==
    CASE msg \in StopCommands ->
            [res |-> close_processes(close_threads(r), env), ret |-> TRUE]
      [] msg \in CloseCommands ->
            [res |-> [r EXCEPT !.self.listen_stop_event = TRUE], ret |-> TRUE]
      [] Contains(msg, "GET_PCOMMS") ->
            [res |-> [r EXCEPT !.sent = Append(@, "PCOMMS")], ret |-> TRUE]
      [] msg = <<"UP">> ->
            [res |-> [r EXCEPT !.sent = Append(@, "1")], ret |-> TRUE]
      [] OTHER -> [res |-> r, ret |-> FALSE]

\* the else branch of handle_msg for a message that is no default command;
\* msg has lost its "\r\n" and "0xc2", and decode("ascii") raises on "0xff"
PrimaryCommand(r, msg, env) ==
    IF msg = <<>> THEN r
    ELSE IF Contains(msg, "0xff") THEN [r EXCEPT !.raised = "UnicodeDecodeError"]
    ELSE IF Split(msg, "|")[1] \in {<<k>> : k \in pcommand_map}
    THEN msg_interpretation(r, msg, env)
    ELSE r

\* handle_msg(msg) for a message without ";"
HandleOne(r, msg, env) ==
    IF default_msg_interpretation(r, msg, env).ret
    THEN default_msg_interpretation(r, msg, env).res
    ELSE PrimaryCommand(r, Replace(Replace(msg, "\r\n"), "0xc2"), env)

\* the loop of handle_msg over the pieces between ";": an exception ends it
RECURSIVE HandleParts(_, _, _)
HandleParts(r, parts, env) ==
    IF parts = <<>> \/ r.raised # "none" THEN r
    ELSE HandleParts(IF Head(parts) # <<>> THEN HandleOne(r, Head(parts), env) ELSE r,
                     Tail(parts), env)

\* handle_msg(msg)
handle_msg(r, msg, env) ==
    IF Contains(msg, ";") THEN HandleParts(r, Split(msg, ";"), env)
    ELSE HandleOne(r, msg, env)

\* the commands a client sends: the default commands in every spelling the
\* server knows, the primary commands with and without payload, an unknown
\* word, a byte that is not ASCII and the empty command
Commands ==
    StopCommands \cup CloseCommands \cup
    { <<"GET_PCOMMS">>, <<"UP">>, <<"UP", "\r\n">>,
      <<"STARTTHREAD">>, <<"STARTTHREAD", "\r\n">>, <<"STARTTHREAD", "|", "{bad">>,
      <<"RUNTHREAD">>, <<"STARTPROC">>, <<"STARTPROC", "|", "{}">>,
      <<"GETVAL">>, <<"GETVAL", "|", "{bad">>, <<"XY">>, <<"0xff">>, <<>> }

\* the commands a client sends while the server is still busy with the one
\* before
Seconds ==
    { <<"STOP">>, <<"CLOSE", "\r\n">>, <<"STARTTHREAD">>, <<"STARTPROC">>, <<"GETVAL">>, <<>> }

\* what one recv() returns: one command, or two that met at the socket
Msgs == (Commands \ {<<>>}) \cup {p \o <<";">> \o q : p \in Commands, q \in Seconds}

\* the server's fields without the listener's position, and back
ServerSelf == [f \in DOMAIN srv \ {"pos"} |-> srv[f]]
WithPos(self, pos) ==
    [f \in DOMAIN self \cup {"pos"} |-> IF f = "pos" THEN pos ELSE self[f]]

\* msg is one of the default commands
IsDefaultCommand(msg) ==
    \/ msg \in StopCommands \cup CloseCommands
    \/ Contains(msg, "GET_PCOMMS")
    \/ msg = <<"UP">>

\* msg is a single command that is no default command and either does not
\* begin with a key of pcommand_map or has a payload that is no JSON
IsUnknown(msg) ==
    /\ msg # <<>>
    /\ ~Contains(msg, ";")
    /\ ~IsDefaultCommand(msg)
    /\ \/ Split(Replace(Replace(msg, "\r\n"), "0xc2"), "|")[1] \notin {<<k>> : k \in pcommand_map}
       \/ /\ Len(Split(msg, "|")) > 1
          /\ ~JsonLoads(Split(Replace(Replace(msg, "\r\n"), "0xc2"), "|")
                            [Len(Split(Replace(Replace(msg, "\r\n"), "0xc2"), "|"))]).ok

\* handle_msg called for each non-empty part of parts, one call after the
\* other
RECURSIVE EachPart(_, _, _)
EachPart(r, parts, env) ==
    IF parts = <<>> THEN r
    ELSE EachPart(IF Head(parts) = <<>> THEN r
                  ELSE handle_msg([r EXCEPT !.raised = "none"], Head(parts), env),
                  Tail(parts), env)

\* what a server keeps books on
Books(self) ==
    [threads |-> self.threads, processes |-> self.processes,
     listen_stop_event |-> self.listen_stop_event]

\* e, what the calls for the parts of a message have led to, has the books
\* and the called command functions of h, what handle_msg(msg) has led to
SameOutcome(h, e) == Books(h.self) = Books(e.self) /\ h.called = e.called

\* h is what handle_msg(msg) on self has led to: it comes to the same as the
\* calls for the parts of msg
AsParts(h, self, msg, env) ==
    Contains(msg, ";") => SameOutcome(h, EachPart(Returned(self), Split(msg, ";"), env))

\* srv.pos: where the thread that runs start_listening() is
\*   "init" not called yet, "accept" in server_socket.accept(), "recv" in
\*   current_conn.recv(), "returned", "raised"
InitSrv ==
    /\ srv = WithPos(NewServer, "init")
    /\ pre = WithPos(NewServer, "init")
    /\ call = [op |-> "idle", stops |-> FALSE, closes |-> FALSE, unknown |-> FALSE,
               as_parts |-> TRUE, raised |-> "none", sent |-> <<>>, called |-> <<>>,
               stopped |-> <<>>]
    /\ obs = [registered |-> 0, stops |-> FALSE]
    /\ buffer = Unused
    /\ buffer_t = Unused
    /\ curr_i = Unused
    /\ last_t = Unused
    /\ nextId = Unused
    /\ start = Unused
    /\ fed_s = Unused
    /\ fed_t = Unused
    /\ fed_ok = Unused
    /\ nbad = Unused
    /\ fb = Unused
    /\ sw = Unused
    /\ el = Unused
    /\ loggers = Unused

NotServer == <<buffer, buffer_t, curr_i, last_t, nextId, start, fed_s, fed_t, fed_ok, nbad,
               fb, sw, el, loggers>>

\* the calls in called that gave the server something to keep books on
Registrations(called) ==
    Len(SelectSeq(called, LAMBDA c : CommandReturn(c.func).kind # "int"))

\* some command of msg is one of cmds
HasCommand(msg, cmds) ==
    \E i \in 1 .. Len(Split(msg, ";")) : Split(msg, ";")[i] \in cmds

\* an operation op on message msg has ended with r, and the listener is at
\* pos; call.stops and call.closes tell whether msg held a STOP or a CLOSE
\* command, call.unknown whether it is an unknown command, call.as_parts
\* whether handling it came to the same as handling its parts; obs.stops
\* tells that a STOP command has stopped something on this connection
SrvReturns(op, msg, r, pos) ==
    /\ srv' = WithPos(r.self, pos)
    /\ pre' = srv
    /\ call' = [op |-> op, stops |-> HasCommand(msg, StopCommands),
                closes |-> HasCommand(msg, CloseCommands), unknown |-> IsUnknown(msg),
                as_parts |-> r.as_parts,
                raised |-> r.raised, sent |-> r.sent, called |-> r.called,
                stopped |-> r.stopped]
    /\ obs' = [registered |-> obs.registered + Registrations(r.called),
               stops |-> obs.stops \/ (op = "recv" /\ msg \in StopCommands
                                                  /\ r.stopped # <<>>)]
    /\ UNCHANGED NotServer

\* the test of both while loops of start_listening, and what follows them
LoopTest(r) ==
    IF r.self.listen_stop_event
    THEN [self |-> [r.self EXCEPT !.is_listening = FALSE], pos |-> "returned"]
    ELSE [self |-> r.self, pos |-> "recv"]

\* not an operation of the server: the observer has looked at the outcome of
\* the last operation and forgets it
Idle ==
    [op |-> "idle", stops |-> FALSE, closes |-> FALSE, unknown |-> FALSE, as_parts |-> TRUE,
     raised |-> "none", sent |-> <<>>, called |-> <<>>, stopped |-> <<>>]

Observed ==
    /\ call # Idle
    /\ call' = Idle
    /\ pre' = srv
    /\ UNCHANGED <<srv, obs>>
    /\ UNCHANGED NotServer

\* start_listening() up to accept()
StartListening ==
    /\ call = Idle
    /\ srv.pos = "init"
    /\ IF srv.listen_stop_event
       THEN SrvReturns("start_listening", <<>>,
                       Returned([ServerSelf EXCEPT !.is_listening = FALSE]), "returned")
       ELSE SrvReturns("start_listening", <<>>,
                       Returned([ServerSelf EXCEPT !.is_listening = TRUE]), "accept")

\* accept() returns a connection
Accept ==
    /\ call = Idle
    /\ srv.pos = "accept"
    /\ \E l \in {LoopTest(Returned(ServerSelf))} :
          SrvReturns("accept", <<>>, Returned(l.self),
                     IF l.pos = "returned" THEN "returned" ELSE "recv")

\* accept() raises
AcceptFails ==
    /\ call = Idle
    /\ srv.pos = "accept"
    /\ SrvReturns("accept", <<>>, [Returned(ServerSelf) EXCEPT !.raised = "OSError"],
                  "raised")

\* one turn of the inner loop in which recv() returned msg and handle_msg
\* ended with r
Handled(msg, r) ==
    CASE r.raised = "none" ->
            SrvReturns("recv", msg, [r EXCEPT !.self = LoopTest(r).self], LoopTest(r).pos)
      [] r.raised = "UnicodeDecodeError" ->
            SrvReturns("recv", msg,
                       [r EXCEPT !.self = LoopTest(r).self, !.sent = Append(@, "undecodable")],
                       LoopTest(r).pos)
      [] OTHER ->
            SrvReturns("recv", msg, [r EXCEPT !.self.is_listening = FALSE], "raised")

\* recv() returns a message
Recv ==
    \E msg \in Msgs, env \in Envs :
        /\ call = Idle
        /\ srv.pos = "recv"
        /\ \/ srv.processes # <<>> /\ HasCommand(msg, StopCommands)
           \/ env.profile = [children |-> <<>>, sigint |-> TRUE]
        /\ \E h \in {handle_msg(Returned(ServerSelf), msg, env)} :
              /\ obs.registered + Registrations(h.called) <= MaxEntries
              /\ \E r \in {[h EXCEPT !.as_parts = AsParts(h, ServerSelf, msg, env)]} :
                    Handled(msg, r)

\* recv() returns b"" or times out
RecvNothing ==
    /\ call = Idle
    /\ srv.pos = "recv"
    /\ \E l \in {LoopTest(Returned(ServerSelf))} :
          SrvReturns("recv", <<>>, Returned(l.self), l.pos)

\* recv() raises ConnectionResetError
ConnectionReset ==
    /\ call = Idle
    /\ srv.pos = "recv"
    /\ SrvReturns("recv", <<>>,
                  [Returned([ServerSelf EXCEPT !.is_listening = FALSE])
                       EXCEPT !.raised = "ConnectionResetError"], "raised")

\* the controlling script sets the stop event it gave to init_server
SetStopEvent ==
    /\ call = Idle
    /\ ~srv.listen_stop_event
    /\ SrvReturns("set_stop_event", <<>>,
                  Returned([ServerSelf EXCEPT !.listen_stop_event = TRUE]), srv.pos)

\* the controlling script calls close_threads()
CloseThreads ==
    /\ call = Idle
    /\ srv.threads # <<>>
    /\ \E r \in {close_threads(Returned(ServerSelf))} :
          SrvReturns("close_threads", <<>>, r, srv.pos)

\* the controlling script calls close_processes()
CloseProcesses ==
    /\ call = Idle
    /\ srv.processes # <<>>
    /\ \E env \in Envs :
          /\ env.tick = 0
          /\ \E r \in {close_processes(Returned(ServerSelf), env)} :
                SrvReturns("close_processes", <<>>, r, srv.pos)

NextSrv ==
    \/ StartListening \/ Accept \/ AcceptFails \/ Recv \/ RecvNothing \/ ConnectionReset
    \/ SetStopEvent \/ CloseThreads \/ CloseProcesses \/ Observed

SpecSrv == InitSrv /\ [][NextSrv]_vars

\* ------------------------------------------------------------------------
\* Properties of the DefaultServer

ReturnsThread(c) == CommandReturn(c.func).kind = "thread"
ReturnsPopen(c) == CommandReturn(c.func).kind = "popen"

\* C22 as the claim states it: a received message without a STOP command
\* leaves one more entry in server.threads for each command function it
\* called that returned (Thread, Event), one more entry in server.processes
\* for each that returned a Popen, and no other entry.  It does not hold:
\* two registrations whose time_ns() and message are the same share one key.
C22_AsStated ==
    (call.op = "recv" /\ ~call.stops /\ call.raised = "none") =>
        /\ Len(srv.threads) = Len(pre.threads) + Len(SelectSeq(call.called, ReturnsThread))
        /\ Len(srv.processes) = Len(pre.processes) + Len(SelectSeq(call.called, ReturnsPopen))

\* C23: close_threads() returns, server.threads is empty afterwards, and
\* every thread that was in server.threads has had its stop event set and
\* was handed to thread_stopper, which left no such thread running; this
\* includes threads that were never started.
C23_ThreadsClosed ==
    call.op = "close_threads" =>
        /\ call.raised = "none"
        /\ srv.threads = <<>>
        /\ Len(call.stopped) = Len(pre.threads)
        /\ \A i \in 1 .. Len(pre.threads) :
              call.stopped[i] = [pre.threads[i].obj EXCEPT !.stop_event = TRUE,
                                                           !.stopped = TRUE,
                                                           !.alive = FALSE]

C23_Witness_NeverStarted ==
    /\ call.op = "close_threads"
    /\ \E i, j \in 1 .. Len(pre.threads) :
          /\ ~pre.threads[i].obj.started
          /\ pre.threads[j].obj.started /\ pre.threads[j].obj.alive

\* the signals of one stop_process call: SIGTERM rounds, at most max_iter of
\* them, a kill round only after max_iter SIGTERM rounds, then the SIGINTs to
\* the subprocess itself
SigtermThenKill(rounds) ==
    \E k \in 0 .. MaxIter, j \in 0 .. (MaxIter + 1) :
        \/ rounds = [n \in 1 .. (k + j) |-> IF n <= k THEN "SIGTERM" ELSE "SIGINT"]
        \/ /\ k = MaxIter
           /\ rounds = [n \in 1 .. (k + 1 + j) |->
                           IF n <= k THEN "SIGTERM" ELSE IF n = k + 1 THEN "KILL" ELSE "SIGINT"]

C30_AsStated ==
    (call.op = "recv" /\ call.closes /\ call.raised = "none") =>
        /\ srv.listen_stop_event
        /\ \A i \in 1 .. Len(call.called) : ~call.called[i].closed
        /\ srv.pos = "returned"
        /\ ~srv.is_listening

\* C31: a received message whose only command with an effect is a STOP
\* leaves threads and processes empty, every thread and subprocess that was
\* tracked having been stopped, leaves listen_stop_event as it was, and the
\* listener goes on with recv(); what a later message on the connection
\* registers is tracked
C31_StopHandled ==
    /\ (call.op = "recv" /\ call.stops /\ ~call.closes /\ call.called = <<>>
            /\ call.raised = "none") =>
          /\ srv.threads = <<>>
          /\ srv.processes = <<>>
          /\ Len(call.stopped) = Len(pre.threads) + Len(pre.processes)
          /\ \A i \in 1 .. Len(call.stopped) :
                call.stopped[i].stopped /\ ~call.stopped[i].alive
          /\ \A i \in 1 .. Len(pre.threads) :
                call.stopped[i] = [pre.threads[i].obj EXCEPT !.stop_event = TRUE,
                                                            !.stopped = TRUE, !.alive = FALSE]
          /\ srv.listen_stop_event = pre.listen_stop_event
          /\ ~pre.listen_stop_event => srv.pos = "recv" /\ srv.is_listening
    /\ (obs.stops /\ call.op = "recv" /\ ~call.stops /\ call.raised = "none") =>
          /\ (\E i \in 1 .. Len(call.called) : ReturnsThread(call.called[i])) =>
                srv.threads # <<>>
          /\ (\E i \in 1 .. Len(call.called) : ReturnsPopen(call.called[i])) =>
                srv.processes # <<>>

\* after a STOP that stopped what was tracked, a later message has
\* registered a new subprocess
C31_Witness_RegistersAfterStop ==
    /\ obs.stops
    /\ call.op = "recv"
    /\ ~call.stops
    /\ pre.threads = <<>>
    /\ pre.processes = <<>>
    /\ Len(srv.processes) = 1

\* C35 as the claim states it: is_listening is False before start_listening
\* is called, True while its loop runs, and False once it has returned or
\* raised
C35_AsStated ==
    /\ srv.pos = "init" => ~srv.is_listening
    /\ srv.pos \in {"accept", "recv"} => srv.is_listening
    /\ srv.pos \in {"returned", "raised"} => ~srv.is_listening

\* C39 as the claim states it: handle_msg on a message with ";" comes to the
\* same as handle_msg called for each non-empty part in turn
C39_AsStated == call.op = "recv" => call.as_parts

\* C40 as the claim states it: an unknown command, or one whose payload is
\* no JSON, calls no command function, leaves threads, processes and
\* listen_stop_event as they were, lets no exception out of handle_msg, and
\* the listener goes on with recv()
C40_AsStated ==
    (call.op = "recv" /\ call.unknown) =>
        /\ \A i \in 1 .. Len(call.called) : call.called[i].func = "noop"
        /\ Books(srv) = Books(pre)
        /\ call.raised = "none"
        /\ ~pre.listen_stop_event => srv.pos = "recv" /\ srv.is_listening

\* ------------------------------------------------------------------------
\* DefaultCallbackServer (default_server/server.py)
\*
\* The thread that runs start_listening() and the thread that runs
\* process_callbacks() take their steps in any order.  srv.pos is where the
\* first is:
\*   "init" not called yet, "accept" in server_socket.accept(), "connect"
\*   after callback_thread.start(), "recv" in current_conn.recv(), "join" in
\*   the join() of the callback thread, "returned", "raised"
\* srv.cb is where the second is:
\*   "none" not started, "outer" at the test of the outer loop, "inner" at
\*   the test of the inner loop, "ended", "raised"
\* srv.cb_stop is the callback thread's stop event.  Payloads are numbered in
\* the order they are appended to callback_stack.

\* payloads appended over one behaviour
MaxPayloads == 2
\* threads and subprocesses the commands of one behaviour register
MaxCbEntries == 1

\* a DefaultCallbackServer after init_server(stop_event), no thread running
NewCallbackServer ==
    [threads |-> <<>>, processes |-> <<>>, listen_stop_event |-> FALSE,
     is_listening |-> FALSE, clock |-> 0, callback_stack |-> <<>>, current_conn |-> "None",
     pos |-> "init", cb |-> "none", cb_stop |-> FALSE]

\* the key of the callback thread in self.threads
CallbacksKey == <<0, <<"callbacks">>>>

\* the messages of the client of a callback server, time_ns() advancing
\* between any two of them, and the subprocesses having no children
CbMsgs ==
    { <<"STOP">>, <<"CLOSE">>, <<"UP">>, <<"STARTTHREAD">>, <<"STARTPROC">>, <<"XY">>,
      <<"0xff">>, <<"STARTTHREAD", "|", "{}">>,
      <<"STARTTHREAD", ";", "STARTPROC">>, <<"XY", ";", "CLOSE">> }
CbEnv == [tick |-> 1, profile |-> [children |-> <<>>, sigint |-> TRUE]]

\* the handling of a received message in the loop of
\* DefaultCallbackServer.start_listening
InlinedHandling(r, msg, env) ==
    IF default_msg_interpretation(r, msg, env).ret
    THEN default_msg_interpretation(r, msg, env).res
    ELSE PrimaryCommand(r, Replace(Replace(msg, "\r\n"), "0xc2"), env)

\* the except clauses of the loop for the outcome r of the handling, then
\* the test of the loops
AfterHandling(r) ==
    CASE r.raised \in {"none", "UnicodeDecodeError"} ->
            [LoopTest(r).self EXCEPT !.pos = LoopTest(r).pos]
      [] OTHER -> [r.self EXCEPT !.is_listening = FALSE, !.pos = "raised"]

InitCb ==
    /\ srv = NewCallbackServer
    /\ pre = Unused
    /\ call = [op |-> "idle", conn |-> "None", same |-> TRUE]
    /\ obs = [next_p |-> 1, owed |-> {}, sent |-> <<>>, registered |-> 0]
    /\ buffer = Unused
    /\ buffer_t = Unused
    /\ curr_i = Unused
    /\ last_t = Unused
    /\ nextId = Unused
    /\ start = Unused
    /\ fed_s = Unused
    /\ fed_t = Unused
    /\ fed_ok = Unused
    /\ nbad = Unused
    /\ fb = Unused
    /\ sw = Unused
    /\ el = Unused
    /\ loggers = Unused

\* a step op of one of the threads has led to self; call.conn is the value
\* of current_conn the step has read, call.same tells whether the handling
\* of a received message came to the same as handle_msg
CbStepped(op, self, same, o) ==
    /\ srv' = self
    /\ call' = [op |-> op, conn |-> srv.current_conn, same |-> same]
    /\ obs' = o
    /\ UNCHANGED pre
    /\ UNCHANGED NotServer

\* start_listening() up to accept()
CbStartListening ==
    /\ srv.pos = "init"
    /\ CbStepped("start_listening",
                 IF srv.listen_stop_event
                 THEN [srv EXCEPT !.is_listening = FALSE, !.pos = "returned"]
                 ELSE [srv EXCEPT !.is_listening = TRUE, !.pos = "accept"],
                 TRUE, obs)

\* accept() returns a connection: the callback thread is made, registered
\* and started
CbAccept ==
    /\ srv.pos = "accept"
    /\ CbStepped("accept",
                 [srv EXCEPT !.threads = DictSet(@, CallbacksKey, NewThread(TRUE)),
                             !.cb = "outer", !.cb_stop = FALSE, !.pos = "connect"],
                 TRUE, obs)

\* accept() raises
CbAcceptFails ==
    /\ srv.pos = "accept"
    /\ CbStepped("accept", [srv EXCEPT !.pos = "raised"], TRUE, obs)

\* self.current_conn = current_conn, the greeting, and the test of the
\* inner loop
CbConnect ==
    /\ srv.pos = "connect"
    /\ \E r \in {Returned([srv EXCEPT !.current_conn = "conn"])} :
          CbStepped("connect", AfterHandling(r), TRUE, obs)

\* the callback thread is in self.threads and has not ended, so that
\* close_threads() waits in its join()
JoinWaits(self) ==
    /\ \E i \in 1 .. Len(self.threads) : self.threads[i].key = CallbacksKey
    /\ self.cb \in {"outer", "inner"}

\* recv() returns a message: one turn of the inner loop, or for a STOP
\* command the turn up to the join() of the callback thread
CbRecv ==
    \E msg \in CbMsgs :
        /\ srv.pos = "recv"
        /\ IF msg \in StopCommands /\ JoinWaits(srv)
           THEN CbStepped("stop", [srv EXCEPT !.cb_stop = TRUE, !.pos = "join"], TRUE, obs)
           ELSE \E h \in {InlinedHandling(Returned(srv), msg, CbEnv)} :
                   /\ obs.registered + Registrations(h.called) <= MaxCbEntries
                   /\ CbStepped("recv", AfterHandling(h),
                                SameOutcome(h, handle_msg(Returned(srv), msg, CbEnv)),
                                [obs EXCEPT !.registered = @ + Registrations(h.called)])

\* the join() of the callback thread returns: the rest of the turn for a
\* STOP command
CbJoined ==
    /\ srv.pos = "join"
    /\ srv.cb \in {"ended", "raised"}
    /\ \E h \in {InlinedHandling(Returned(srv), <<"STOP">>, CbEnv)} :
          CbStepped("joined", AfterHandling(h), TRUE, obs)

\* recv() returns b"" or times out
CbRecvNothing ==
    /\ srv.pos = "recv"
    /\ CbStepped("recv_nothing", AfterHandling(Returned(srv)), TRUE, obs)

\* the controlling script sets the stop event it gave to init_server
CbSetStopEvent ==
    /\ ~srv.listen_stop_event
    /\ CbStepped("set_stop_event", [srv EXCEPT !.listen_stop_event = TRUE], TRUE, obs)

\* a client is connected and the server listens
Serving(self) ==
    /\ self.pos \in {"recv", "join"}
    /\ self.current_conn = "conn"
    /\ self.is_listening
    /\ ~self.listen_stop_event

\* the program appends a payload to callback_stack; obs.owed are the
\* payloads appended while a client was connected and the server listened
AppendPayload ==
    /\ obs.next_p <= MaxPayloads
    /\ CbStepped("append", [srv EXCEPT !.callback_stack = Append(@, obs.next_p)], TRUE,
                 [obs EXCEPT !.next_p = @ + 1,
                             !.owed = IF Serving(srv) THEN @ \cup {obs.next_p} ELSE @])

\* process_callbacks: the test of the outer loop
ProcessOuter ==
    /\ srv.cb = "outer"
    /\ CbStepped("test_stop", [srv EXCEPT !.cb = IF srv.cb_stop THEN "ended" ELSE "inner"],
                 TRUE, obs)

\* process_callbacks: the test of the inner loop and its body;
\* server.current_conn.sendall is looked up before the payload is popped
ProcessInner ==
    /\ srv.cb = "inner"
    /\ CASE srv.callback_stack = <<>> ->
                CbStepped("test_stack", [srv EXCEPT !.cb = "outer"], TRUE, obs)
         [] srv.callback_stack # <<>> /\ srv.current_conn = "None" ->
                CbStepped("sendall", [srv EXCEPT !.cb = "raised"], TRUE, obs)
         [] OTHER ->
                CbStepped("sendall", [srv EXCEPT !.callback_stack = Tail(@)], TRUE,
                          [obs EXCEPT !.sent = Append(@, Head(srv.callback_stack))])

process_callbacks == ProcessOuter \/ ProcessInner

NextCb ==
    \/ CbStartListening \/ CbAccept \/ CbAcceptFails \/ CbConnect \/ CbRecv \/ CbJoined
    \/ CbRecvNothing \/ CbSetStopEvent \/ AppendPayload \/ process_callbacks

SpecCb == InitCb /\ [][NextCb]_vars

\* both threads are scheduled again and again: the callback thread goes on
\* while it has not ended, and a join() returns once the thread has ended
SpecCbFair == SpecCb /\ WF_vars(process_callbacks) /\ WF_vars(CbJoined)

\* ------------------------------------------------------------------------
\* Properties of the DefaultCallbackServer

\* the payloads sent so far
Sent == {obs.sent[k] : k \in 1 .. Len(obs.sent)}

\* C32 as the claim states it: every payload appended to callback_stack
\* while a client is connected and the server listens is eventually sent,
\* the payloads are sent in the order they were appended and none is sent
\* twice, whatever commands the client sends
C32_AsStated ==
    /\ [](\A j, k \in 1 .. Len(obs.sent) : j < k => obs.sent[j] < obs.sent[k])
    /\ \A p \in 1 .. MaxPayloads : (p \in obs.owed) ~> (p \in Sent)

\* C33 as the claim states it: whenever the callback thread goes to send a
\* payload of callback_stack, current_conn is the accepted connection, also
\* when the stack was filled before the client connected
C33_AsStated == call.op = "sendall" => call.conn = "conn"

\* C34 as the claim states it: for every received message the loop of
\* DefaultCallbackServer.start_listening calls the same command functions
\* and leaves the same threads, processes and stop event as handle_msg
\* does, also for messages of several commands joined by ";"
C34_AsStated == call.op = "recv" => call.same

\* ------------------------------------------------------------------------
\* EventLoop (general/event_loop.py) and sleep_s (general/time.py)
\*
\* Time is counted in ticks.  The model does not keep perf_counter() itself
\* but how long ago each timestamp of the program was taken, and stops
\* counting beyond every value the program compares it with.
\* A callback is a record [id]; what the function behind it does when it is
\* called, and how long it takes, is chosen at each call.

\* callables registered over one behaviour
MaxCallbacks == 2
\* the values of dt_s, in ticks
Periods == {2, 3}
\* the ticks one call of a callback can take
Durations == {0, 1}
\* the delays of delayed callbacks, in ticks
Delays == {0, 1}
\* ticks that pass from one test of run()'s loop to the next reading of
\* perf_counter()
Turn == 1

\* the greatest member of a set of numbers
Greatest(S) == CHOOSE x \in S : \A y \in S : y <= x

\* a time since last_run_ts or now is counted up to Horizon, a time since
\* start_ts up to AgeHorizon
Horizon == Greatest(Periods) + 2 * Turn + 1
AgeHorizon == Greatest(Delays) + 1
Saturate(t, h) == IF t > h THEN h ELSE t

\* what add_callback and its siblings can be given: a function with or
\* without a ctx argument, or something that is no Callable
Candidates ==
    { [callable |-> TRUE, takes_ctx |-> TRUE], [callable |-> TRUE, takes_ctx |-> FALSE],
      [callable |-> FALSE, takes_ctx |-> FALSE] }

\* EventLoop(dt_s): lag_last is perf_counter() - last_run_ts, lag_now is
\* perf_counter() - now, elapsed is now - last_run_ts while a round runs;
\* pc, i and to_pop are where run() and process_callbacks() are:
\*   "idle" run() not called, "test" at the test of run()'s loop, "once" in
\*   the while loop, "delayed" and "periodic" in the for loops, "returned"
NewEventLoop(dt_s) ==
    [dt_s |-> dt_s, stop_event |-> FALSE, lag_last |-> 0, lag_now |-> 0, elapsed |-> 0,
     callbacks |-> <<>>, callbacks_once |-> <<>>, delayed_callbacks_once |-> <<>>,
     ctx |-> "ctx", pc |-> "idle", i |-> 0, to_pop |-> {}]

\* d ticks pass: age is perf_counter() - start_ts of a DelayedCallback
Advance(self, d) ==
    [self EXCEPT !.lag_last = Saturate(@ + d, Horizon), !.lag_now = Saturate(@ + d, Horizon),
                 !.delayed_callbacks_once =
                     [k \in 1 .. Len(@) |-> [@[k] EXCEPT !.age = Saturate(@ + d, AgeHorizon)]]]

\* sleep_s(s): returns when perf_counter() - start >= s
sleep_s(self, s) == Advance(self, s)

\* validate_callback without its assert
validate_callback_any(cb, id) == [cb |-> [id |-> id], raised |-> "none"]

\* validate_callback(cb), for the callable that gets the name id: the lambda
\* it returns for a function without ctx calls that function, so it does
\* what the function does and goes by its name
validate_callback(cb, id) ==
    IF ~cb.callable THEN [cb |-> [id |-> id], raised |-> "AssertionError"]
    ELSE IF ~cb.takes_ctx THEN [cb |-> [id |-> id], raised |-> "none"]
    ELSE [cb |-> [id |-> id], raised |-> "none"]

\* add_callback(cb) where validate_callback has returned v
AddCallbackEnd(self, v) ==
    IF v.raised # "none" THEN [self |-> self, raised |-> v.raised]
    ELSE [self |-> [self EXCEPT !.callbacks = Append(@, v.cb)], raised |-> "none"]

add_callback(self, cb, id) == AddCallbackEnd(self, validate_callback(cb, id))

\* add_callback_once(cb) where validate_callback has returned v
AddCallbackOnceEnd(self, v) ==
    IF v.raised # "none" THEN [self |-> self, raised |-> v.raised]
    ELSE [self |-> [self EXCEPT !.callbacks_once = Append(@, v.cb)], raised |-> "none"]

add_callback_once(self, cb, id) == AddCallbackOnceEnd(self, validate_callback(cb, id))

\* add_delayed_callback_once(cb, dt) where validate_callback has returned v:
\* start_ts is perf_counter(); seen is now - start_ts as the running round
\* sees it, -1 for a start_ts later than now
AddDelayedEnd(self, v, dt) ==
    IF v.raised # "none" THEN [self |-> self, raised |-> v.raised]
    ELSE [self |-> [self EXCEPT !.delayed_callbacks_once =
                                    Append(@, [cb |-> v.cb, delay_s |-> dt, age |-> 0,
                                               seen |-> -1])],
          raised |-> "none"]

add_delayed_callback_once(self, cb, dt, id) ==
    AddDelayedEnd(self, validate_callback(cb, id), dt)

\* what a callback function does when it is called
Deeds == {"nothing", "stop", "add_once", "again"}

\* cb(ctx=self.ctx) for a callback popped from callbacks_once: it takes d
\* ticks and does deed; a new callable it registers gets the name id
CallOnceCb(self, cb, deed, d, id) ==
    CASE deed = "stop" -> [Advance(self, d) EXCEPT !.stop_event = TRUE]
      [] deed = "add_once" ->
            add_callback_once(Advance(self, d), [callable |-> TRUE, takes_ctx |-> TRUE],
                              id).self
      [] deed = "again" -> [Advance(self, d) EXCEPT !.callbacks_once = Append(@, cb)]
      [] OTHER -> Advance(self, d)

\* cb(ctx=self.ctx) for a delayed or a periodic callback
CallCb(self, deed, d, id) ==
    CASE deed = "stop" -> [Advance(self, d) EXCEPT !.stop_event = TRUE]
      [] deed = "add_once" ->
            add_callback_once(Advance(self, d), [callable |-> TRUE, takes_ctx |-> TRUE],
                              id).self
      [] OTHER -> Advance(self, d)

\* int(dt_last): Python subtracts a bool as 0 or 1
BoolInt(b) == IF b THEN 1 ELSE 0

\* the top of run()'s loop for a loop whose stop event is not set, with
\* self.now = time.perf_counter() taken: dt_last is false, so it sleeps
RunSleeps(self) ==
    [sleep_s(self, self.dt_s - BoolInt(self.lag_last > self.dt_s)) EXCEPT !.pc = "test"]

\* dt_last is true: process_callbacks() begins
RunRound(self) ==
    [self EXCEPT !.elapsed = self.lag_last,
                 !.delayed_callbacks_once =
                     [k \in 1 .. Len(@) |-> [@[k] EXCEPT !.seen = self.delayed_callbacks_once[k].age]],
                 !.pc = "once"]

\* the test of run()'s loop and what follows up to process_callbacks() or
\* the end of sleep_s()
RunTop(self) ==
    IF self.stop_event THEN [self EXCEPT !.pc = "returned"]
    ELSE IF self.lag_last > self.dt_s THEN RunRound([self EXCEPT !.lag_now = 0])
    ELSE RunSleeps([self EXCEPT !.lag_now = 0])

\* self.callbacks_once.pop() in place of pop(0)
pop_last(self) ==
    [self |-> [self EXCEPT !.callbacks_once = SubSeq(@, 1, Len(@) - 1)],
     cb |-> self.callbacks_once[Len(self.callbacks_once)]]

\* cb = self.callbacks_once.pop(0)
pop_first(self) ==
    [self |-> [self EXCEPT !.callbacks_once = Tail(@)], cb |-> Head(self.callbacks_once)]

\* the end of the while loop of process_callbacks
OnceDone(self) ==
    IF self.delayed_callbacks_once # <<>>
    THEN [self EXCEPT !.pc = "delayed", !.i = 0, !.to_pop = {}]
    ELSE [self EXCEPT !.pc = "periodic", !.i = 0]

\* self.now - dcb.start_ts >= dcb.delay_s in place of >
is_due_or_equal(dcb) == dcb.seen >= dcb.delay_s

\* self.now - dcb.start_ts > dcb.delay_s
is_due(dcb) == dcb.seen > dcb.delay_s

\* a list comprehension that turns the rest of the list round
DelayedDone_reversed(self) ==
    [self EXCEPT !.delayed_callbacks_once =
                     [k \in 1 .. Cardinality({j \in 1 .. Len(@) : (j - 1) \notin self.to_pop}) |->
                         @[CHOOSE j \in 1 .. Len(@) :
                               /\ (j - 1) \notin self.to_pop
                               /\ Cardinality({m \in j .. Len(@) : (m - 1) \notin self.to_pop}) = k]],
                 !.pc = "periodic", !.i = 0, !.to_pop = {}]

\* the end of the for loop over delayed_callbacks_once: the list without the
\* indices in to_pop
DelayedDone(self) ==
    [self EXCEPT !.delayed_callbacks_once =
                     [k \in 1 .. Cardinality({j \in 1 .. Len(@) : (j - 1) \notin self.to_pop}) |->
                         @[CHOOSE j \in 1 .. Len(@) :
                               /\ (j - 1) \notin self.to_pop
                               /\ Cardinality({m \in 1 .. j : (m - 1) \notin self.to_pop}) = k]],
                 !.pc = "periodic", !.i = 0, !.to_pop = {}]

\* the end of process_callbacks() and the rest of run()'s if branch:
\* dt_remaining, last_run_ts = now, sleep_s(dt_remaining)
RoundDone(self) ==
    [sleep_s([self EXCEPT !.lag_last = self.lag_now], Max(0, self.dt_s - self.elapsed))
         EXCEPT !.pc = "test", !.elapsed = 0]

\* obs.next_id: the name of the next callable; obs.pending: the one-time
\* registrations not yet executed, in the order they were made;
\* obs.order_ok: every one-time callback executed so far was the oldest
\* pending registration; obs.extra: a one-time callback was executed
\* without a pending registration; obs.skipped: the while loop of a round
\* has ended with a registration pending; obs.round_runs: how often each
\* callable was called by the for loop over callbacks in the current round
\* (2 stands for more than once); obs.rounds: rounds begun (2 stands for
\* more); obs.dur: ticks the round before took, kept up to the begin of the
\* next; obs.stopped_at: the stop event was set when the current round began;
\* obs.early: a delayed callback was executed in a round that began no more
\* than its delay after its registration; obs.delayed_done: the delayed
\* callbacks executed; obs.twice: one of them was executed again; obs.last:
\* the stage (1 while loop, 2 delayed, 3 periodic) and the name of the
\* callback executed last in the current round; obs.in_order: no callback
\* was executed after one of a later stage or after a later registration of
\* its own stage; call.ctx: the ctx argument of the call, if the step was one
NoRuns == [k \in 1 .. MaxCallbacks |-> 0]

InitEL ==
    /\ \E dt_s \in Periods : el = NewEventLoop(dt_s)
    /\ obs = [next_id |-> 1, pending |-> <<>>, order_ok |-> TRUE, extra |-> FALSE,
              skipped |-> FALSE, round_runs |-> NoRuns, rounds |-> 0, dur |-> 0,
              stopped_at |-> FALSE, early |-> FALSE, delayed_done |-> {}, twice |-> FALSE,
              last |-> [stage |-> 0, id |-> 0], in_order |-> TRUE]
    /\ call = [op |-> "init", cb |-> [callable |-> TRUE, takes_ctx |-> TRUE],
               raised |-> "none", ctx |-> "none"]
    /\ pre = Unused
    /\ buffer = Unused
    /\ buffer_t = Unused
    /\ curr_i = Unused
    /\ last_t = Unused
    /\ nextId = Unused
    /\ start = Unused
    /\ fed_s = Unused
    /\ fed_t = Unused
    /\ fed_ok = Unused
    /\ nbad = Unused
    /\ fb = Unused
    /\ sw = Unused
    /\ srv = Unused
    /\ loggers = Unused

NotEventLoop == <<buffer, buffer_t, curr_i, last_t, nextId, start, fed_s, fed_t, fed_ok, nbad,
                  fb, sw, srv, loggers>>

\* a step of run() named op has led to self; ctx is what it gave to the
\* callback it called, before is what the observer keeps of the loop before
SteppedWith(op, self, ctx, before) ==
    /\ el' = self
    /\ call' = [op |-> op, cb |-> [callable |-> TRUE, takes_ctx |-> TRUE], raised |-> "none",
                ctx |-> ctx]
    /\ pre' = before
    /\ UNCHANGED NotEventLoop

\* a step of run() that calls no callback
Stepped(op, self) == SteppedWith(op, self, "none", Unused)

\* a step of run() that calls a callback with ctx=self.ctx
SteppedCall(op, self) == SteppedWith(op, self, el.ctx, Unused)

\* one of the add methods, named op, was given cb and ended with r
Added(op, cb, r) ==
    /\ el' = r.self
    /\ call' = [op |-> op, cb |-> cb, raised |-> r.raised, ctx |-> "none"]
    /\ pre' = el
    /\ UNCHANGED NotEventLoop

\* the ghost list without the oldest registration of id
RECURSIVE Without(_, _)
Without(pending, id) ==
    IF pending = <<>> THEN <<>>
    ELSE IF Head(pending) = id THEN Tail(pending)
    ELSE <<Head(pending)>> \o Without(Tail(pending), id)

Counted(runs, id) == [runs EXCEPT ![id] = IF @ >= 2 THEN 2 ELSE @ + 1]

\* there is a name left for the callable cb
Nameable(cb) == cb.callable => obs.next_id <= MaxCallbacks
NextName(r) == IF r.raised = "none" THEN obs.next_id + 1 ELSE obs.next_id

\* some thread calls add_callback(cb)
AddCallback ==
    \E cb \in Candidates :
        /\ Nameable(cb)
        /\ \E r \in {add_callback(el, cb, obs.next_id)} :
              /\ Added("add_callback", cb, r)
              /\ obs' = [obs EXCEPT !.next_id = NextName(r)]

\* some thread calls add_callback_once(cb)
AddCallbackOnce ==
    \E cb \in Candidates :
        /\ Nameable(cb)
        /\ \E r \in {add_callback_once(el, cb, obs.next_id)} :
              /\ Added("add_callback_once", cb, r)
              /\ obs' = [obs EXCEPT !.next_id = NextName(r),
                                    !.pending = IF r.raised = "none"
                                                THEN Append(@, obs.next_id) ELSE @]

\* some thread calls add_delayed_callback_once(cb, dt)
AddDelayedCallbackOnce ==
    \E cb \in Candidates, dt \in Delays :
        /\ Nameable(cb)
        /\ \E r \in {add_delayed_callback_once(el, cb, dt, obs.next_id)} :
              /\ Added("add_delayed_callback_once", cb, r)
              /\ obs' = [obs EXCEPT !.next_id = NextName(r)]

\* some thread sets the stop event
SetStop ==
    /\ ~el.stop_event
    /\ Stepped("set_stop", [el EXCEPT !.stop_event = TRUE])
    /\ UNCHANGED obs

\* run() is called
Run ==
    /\ el.pc = "idle"
    /\ Stepped("run", [el EXCEPT !.pc = "test"])
    /\ UNCHANGED obs

\* obs after the top of the loop has led to self
Topped(self) ==
    IF self.pc = "once"
    THEN [obs EXCEPT !.round_runs = NoRuns,
                     !.rounds = IF @ >= 2 THEN 2 ELSE @ + 1,
                     !.stopped_at = el.stop_event,
                     !.last = [stage |-> 0, id |-> 0]]
    ELSE obs

\* one turn of run()'s loop up to process_callbacks() or the end of sleep_s()
RunTest ==
    /\ el.pc = "test"
    /\ \E self \in {RunTop(Advance(el, Turn))} :
          /\ Stepped("run_test", self)
          /\ obs' = Topped(self)

\* the while loop of process_callbacks pops a callback and calls it
CallOnce ==
    /\ el.pc = "once"
    /\ el.callbacks_once # <<>>
    /\ \E deed \in Deeds, d \in Durations, p \in {pop_first(el)} :
          /\ deed = "add_once" => obs.next_id <= MaxCallbacks
          /\ SteppedCall("call_once", CallOnceCb(p.self, p.cb, deed, d, obs.next_id))
          /\ obs' = [obs EXCEPT
                       !.order_ok = @ /\ obs.pending # <<>> /\ Head(obs.pending) = p.cb.id,
                       !.extra = @ \/ ~\E k \in 1 .. Len(obs.pending) :
                                          obs.pending[k] = p.cb.id,
                       !.pending = Without(@, p.cb.id) \o
                                   (CASE deed = "again" -> <<p.cb.id>>
                                      [] deed = "add_once" -> <<obs.next_id>>
                                      [] OTHER -> <<>>),
                       !.next_id = IF deed = "add_once" THEN @ + 1 ELSE @,
                       !.dur = 0,
                       !.in_order = @ /\ obs.last.stage <= 1,
                       !.last = [stage |-> 1, id |-> 0]]

\* the while loop ends
EndOnce ==
    /\ el.pc = "once"
    /\ el.callbacks_once = <<>>
    /\ Stepped("end_once", OnceDone(el))
    /\ obs' = [obs EXCEPT !.skipped = @ \/ obs.pending # <<>>, !.dur = 0]

\* obs after the delayed (stage 2) or periodic (stage 3) callback named id
\* has done deed
Called(deed, stage, id) ==
    [obs EXCEPT !.pending = IF deed = "add_once" THEN Append(@, obs.next_id) ELSE @,
                !.next_id = IF deed = "add_once" THEN @ + 1 ELSE @,
                !.in_order = @ /\ obs.last.stage <= stage
                               /\ (obs.last.stage = stage => obs.last.id < id),
                !.last = [stage |-> stage, id |-> id]]

\* one turn of the for loop over delayed_callbacks_once
StepDelayed ==
    /\ el.pc = "delayed"
    /\ el.i < Len(el.delayed_callbacks_once)
    /\ IF is_due(el.delayed_callbacks_once[el.i + 1])
       THEN \E deed \in Deeds \ {"again"}, d \in Durations, dcb \in {el.delayed_callbacks_once[el.i + 1]} :
               /\ deed = "add_once" => obs.next_id <= MaxCallbacks
               /\ SteppedCall("call_delayed",
                              CallCb([el EXCEPT !.i = @ + 1, !.to_pop = @ \cup {el.i}],
                                     deed, d, obs.next_id))
               /\ obs' = [Called(deed, 2, dcb.cb.id) EXCEPT
                            !.early = @ \/ dcb.seen <= dcb.delay_s,
                            !.twice = @ \/ dcb.cb.id \in obs.delayed_done,
                            !.delayed_done = @ \cup {dcb.cb.id}]
       ELSE /\ Stepped("skip_delayed", [el EXCEPT !.i = @ + 1])
            /\ UNCHANGED obs

\* the for loop over delayed_callbacks_once ends
EndDelayed ==
    /\ el.pc = "delayed"
    /\ el.i >= Len(el.delayed_callbacks_once)
    /\ SteppedWith("end_delayed", DelayedDone(el), "none", el)
    /\ UNCHANGED obs

\* one turn of the for loop over callbacks
StepPeriodic ==
    /\ el.pc = "periodic"
    /\ el.i < Len(el.callbacks)
    /\ \E deed \in Deeds \ {"again"}, d \in Durations :
          /\ deed = "add_once" => obs.next_id <= MaxCallbacks
          /\ SteppedCall("call_periodic", CallCb([el EXCEPT !.i = @ + 1], deed, d, obs.next_id))
          /\ obs' = [Called(deed, 3, el.callbacks[el.i + 1].id)
                        EXCEPT !.round_runs = Counted(@, el.callbacks[el.i + 1].id)]

\* the for loop over callbacks ends, and with it the round
EndRound ==
    /\ el.pc = "periodic"
    /\ el.i >= Len(el.callbacks)
    /\ Stepped("end_round", RoundDone(el))
    /\ obs' = [obs EXCEPT !.dur = el.lag_now]

\* the steps of the thread that runs run()
RunStep ==
    \/ RunTest \/ CallOnce \/ EndOnce \/ StepDelayed \/ EndDelayed \/ StepPeriodic
    \/ EndRound

NextEL ==
    \/ AddCallback \/ AddCallbackOnce \/ AddDelayedCallbackOnce \/ SetStop \/ Run
    \/ RunStep

SpecEL == InitEL /\ [][NextEL]_vars

\* the thread that runs run() is not held up for ever
SpecELFair == SpecEL /\ WF_vars(RunStep)

\* ------------------------------------------------------------------------
\* Properties of the EventLoop

AddOps == {"add_callback", "add_callback_once", "add_delayed_callback_once"}

\* C25: add_callback, add_callback_once and add_delayed_callback_once given
\* something that is no Callable raise AssertionError and leave callbacks,
\* callbacks_once and delayed_callbacks_once as they were
C25_NonCallableRejected ==
    (call.op \in AddOps /\ ~call.cb.callable) =>
        /\ call.raised = "AssertionError"
        /\ el.callbacks = pre.callbacks
        /\ el.callbacks_once = pre.callbacks_once
        /\ el.delayed_callbacks_once = pre.delayed_callbacks_once

\* a non-callable was given to add_delayed_callback_once of a loop that
\* holds a periodic and a one-time callback
C25_Witness_Rejected ==
    /\ call.op = "add_delayed_callback_once"
    /\ ~call.cb.callable
    /\ pre.callbacks # <<>>
    /\ pre.callbacks_once # <<>>

\* a round has just begun, and it is not the first
RoundBegins == call.op = "run_test" /\ el.pc = "once" /\ obs.rounds >= 2

\* C26: a round that follows a round shorter than dt_s begins dt_s after
\* that round began, whatever the callbacks of that round took; the two
\* turns of run()'s loop between the rounds are allowed for
C26_AsStated ==
    (RoundBegins /\ obs.dur < el.dt_s) =>
        /\ el.elapsed >= el.dt_s
        /\ el.elapsed <= el.dt_s + 2 * Turn

\* the names in a list of callbacks
Names(cbs) == [k \in 1 .. Len(cbs) |-> cbs[k].id]

\* C27: a one-time callback is executed once for each registration, by the
\* first while loop of process_callbacks that runs after or while it was
\* registered, the one registered first being executed first, and it is
\* out of callbacks_once from then on; a periodic callback stays in
\* callbacks and is executed once in every round
C27_OnceAndPeriodic ==
    /\ ~obs.extra
    /\ obs.order_ok
    /\ ~obs.skipped
    /\ Names(el.callbacks_once) = obs.pending
    /\ call.op = "end_once" => el.callbacks_once = <<>>
    /\ \A k \in 1 .. MaxCallbacks : obs.round_runs[k] <= 1
    /\ Len(el.callbacks) = Cardinality({k \in 1 .. MaxCallbacks : \E j \in 1 .. Len(el.callbacks) :
                                                                    el.callbacks[j].id = k})
    /\ call.op = "end_round" =>
          \A j \in 1 .. Len(el.callbacks) : obs.round_runs[el.callbacks[j].id] = 1

\* the first of two one-time callbacks has been executed in the first round
\* and the second is the one left
C27_Witness_FirstOfTwo ==
    /\ call.op = "call_once"
    /\ obs.rounds = 1
    /\ obs.pending = <<2>>
    /\ el.callbacks_once = <<[id |-> 2]>>

\* the round saw dcb more than its delay after its registration
Due(dcb) == dcb.seen > dcb.delay_s
NotDue(dcb) == ~Due(dcb)

\* C37: a delayed callback is not executed in a round that begins delay_s or
\* less after its registration and not executed twice; the for loop of the
\* first round that begins more than delay_s after the registration
\* executes it, and at the end of that loop it is out of
\* delayed_callbacks_once while the callbacks not yet due are left in their
\* order
C37_DelayedOnce ==
    /\ ~obs.early
    /\ ~obs.twice
    /\ el.pc # "delayed" =>
          \A k \in 1 .. Len(el.delayed_callbacks_once) :
              el.delayed_callbacks_once[k].cb.id \notin obs.delayed_done
    /\ call.op = "end_delayed" =>
          /\ el.delayed_callbacks_once = SelectSeq(pre.delayed_callbacks_once, NotDue)
          /\ \A k \in 1 .. Len(pre.delayed_callbacks_once) :
                Due(pre.delayed_callbacks_once[k]) =>
                    pre.delayed_callbacks_once[k].cb.id \in obs.delayed_done

\* the for loop has executed the first of two delayed callbacks, which was
\* due, and has left the second, which was not
C37_Witness_OneDueOneNot ==
    /\ call.op = "end_delayed"
    /\ Len(pre.delayed_callbacks_once) = 2
    /\ Due(pre.delayed_callbacks_once[1])
    /\ pre.delayed_callbacks_once[2].seen >= 0
    /\ NotDue(pre.delayed_callbacks_once[2])
    /\ Len(el.delayed_callbacks_once) = 1

CallSteps == {"call_once", "call_delayed", "call_periodic"}

\* C38: in a round no one-time callback is executed after a delayed or a
\* periodic one and no delayed one after a periodic one; the while loop
\* executes the oldest registration first and leaves none pending, the due
\* delayed and the periodic callbacks are executed in the order of their
\* registration; and each call is given the loop's ctx
C38_RoundOrder ==
    /\ obs.in_order
    /\ obs.order_ok
    /\ ~obs.skipped
    /\ call.op \in CallSteps => call.ctx = el.ctx
    /\ call.op = "call_once" => el.pc = "once"
    /\ call.op = "call_delayed" => el.pc = "delayed"
    /\ call.op = "call_periodic" => el.pc = "periodic"

\* in the first round a periodic callback has been executed after a delayed
\* callback that was registered after it
C38_Witness_DelayedThenPeriodic ==
    /\ call.op = "call_periodic"
    /\ obs.rounds = 1
    /\ obs.delayed_done = {2}
    /\ obs.last = [stage |-> 3, id |-> 1]

\* C28: run() does not return while the stop event is not set; no round
\* begins with the stop event set; and once the stop event is set, run()
\* returns
C28_AsStated ==
    /\ [](el.pc = "returned" => el.stop_event)
    /\ [](~obs.stopped_at)
    /\ (el.stop_event /\ el.pc # "idle") ~> (el.pc = "returned")

\* ------------------------------------------------------------------------
\* get_logger (logging/logger.py)
\*
\* loggers.by_name is the logging module's table of loggers, the root
\* logger under the name ""; a handler is a record naming its class;
\* loggers.debug_color is log_colors["DEBUG"] of the console handler's
\* formatter.

\* logging.getLogger(""), and logging.getLogger() without a name
RootName == ""

LoggerNames == {RootName, "dareplane_utils_test", "other"}

console == [cls |-> "StreamHandler"]
socket == [cls |-> "UJsonSocketHandler"]

\* isinstance(h, logging.StreamHandler)
IsStreamHandler(h) == h.cls = "StreamHandler"
\* isinstance(h, logging.handlers.SocketHandler): UJsonSocketHandler is a
\* subclass of it
IsSocketHandler(h) == h.cls \in {"SocketHandler", "UJsonSocketHandler"}

\* the values the colors argument gives to "DEBUG": the default, another
\* colour, or no entry for "DEBUG"
ColorArgs == {"cyan", "red", "absent"}

\* logging.config.dictConfig(default_dareplane_config) at import; every
\* other logger is as logging.getLogger(name) first makes it
ImportedLogging ==
    [by_name |-> [n \in LoggerNames |->
                     IF n = RootName THEN [handlers |-> <<console, socket>>, propagate |-> TRUE]
                     ELSE [handlers |-> <<>>, propagate |-> TRUE]],
     debug_color |-> "white"]

\* Logger.addHandler(hdlr): a handler is added unless it is in the list
addHandler(handlers, hdlr) ==
    IF \E k \in 1 .. Len(handlers) : handlers[k] = hdlr THEN handlers
    ELSE Append(handlers, hdlr)

\* the list comprehension left out: logger.handlers stays as it is
keep_handlers(handlers) == handlers

\* [h for h in logger.handlers if not isinstance(h, SocketHandler)]
without_socket_handlers(handlers) ==
    LET NotSocket(h) == ~IsSocketHandler(h) IN SelectSeq(handlers, NotSocket)

\* get_logger from the socket handler on, for the table ls
GetLoggerSocket(ls, name, no_socket_handler) ==
    LET sockets == SelectSeq(ls.by_name[RootName].handlers, IsSocketHandler) IN
    IF sockets = <<>> THEN [self |-> ls, raised |-> "IndexError"]
    ELSE [self |-> [ls EXCEPT !.by_name[name] =
                        [handlers |-> IF no_socket_handler
                                      THEN without_socket_handlers(addHandler(@.handlers, sockets[1]))
                                      ELSE addHandler(@.handlers, sockets[1]),
                         propagate |-> FALSE]],
          raised |-> "none"]

\* get_logger(name, add_console_handler, colors, no_socket_handler)
get_logger(ls, name, add_console_handler, color, no_socket_handler) ==
    LET consoles == SelectSeq(ls.by_name[RootName].handlers, IsStreamHandler) IN
    IF ~add_console_handler THEN GetLoggerSocket(ls, name, no_socket_handler)
    ELSE IF consoles = <<>> THEN [self |-> ls, raised |-> "IndexError"]
    ELSE GetLoggerSocket(
             [ls EXCEPT !.debug_color = IF color = "absent" THEN @ ELSE color,
                        !.by_name[name].handlers = addHandler(@, consoles[1])],
             name, no_socket_handler)

InitLog ==
    /\ loggers = ImportedLogging
    /\ call = [op |-> "import", name |-> RootName, no_socket_handler |-> FALSE,
               raised |-> "none"]
    /\ pre = ImportedLogging
    /\ obs = Unused
    /\ buffer = Unused
    /\ buffer_t = Unused
    /\ curr_i = Unused
    /\ last_t = Unused
    /\ nextId = Unused
    /\ start = Unused
    /\ fed_s = Unused
    /\ fed_t = Unused
    /\ fed_ok = Unused
    /\ nbad = Unused
    /\ fb = Unused
    /\ sw = Unused
    /\ srv = Unused
    /\ el = Unused

\* get_logger has ended with r
GetLoggerReturns(name, no_socket_handler, r) ==
    /\ loggers' = r.self
    /\ call' = [op |-> "get_logger", name |-> name, no_socket_handler |-> no_socket_handler,
                raised |-> r.raised]
    /\ pre' = loggers
    /\ UNCHANGED <<obs, buffer, buffer_t, curr_i, last_t, nextId, start, fed_s, fed_t, fed_ok,
                   nbad, fb, sw, srv, el>>

\* some module calls get_logger
GetLogger ==
    \E name \in LoggerNames, add_console_handler \in BOOLEAN, color \in ColorArgs,
       no_socket_handler \in BOOLEAN :
        \E r \in {get_logger(loggers, name, add_console_handler, color, no_socket_handler)} :
            GetLoggerReturns(name, no_socket_handler, r)

NextLog == GetLogger

SpecLog == InitLog /\ [][NextLog]_vars

\* C29: a logger that get_logger(name, no_socket_handler=True) returns has
\* no SocketHandler among its handlers, whatever calls came before
C29_NoSocketHandler ==
    (call.op = "get_logger" /\ call.no_socket_handler /\ call.raised = "none") =>
        \A k \in 1 .. Len(loggers.by_name[call.name].handlers) :
            ~IsSocketHandler(loggers.by_name[call.name].handlers[k])

\* a logger that an earlier call gave the console and the socket handler is
\* returned by a call that opts out
C29_Witness_OptOutLater ==
    /\ call.op = "get_logger"
    /\ call.no_socket_handler
    /\ call.raised = "none"
    /\ call.name # RootName
    /\ pre.by_name[call.name].handlers = <<console, socket>>
    /\ loggers.by_name[call.name].handlers = <<console>>

====
